---- MODULE Spec2Model ----
(***************************************************************************)
(* A model of LLM Voice Chat: the four section validators and              *)
(* validate_all_configs (config_validator.py), load_config and             *)
(* AppConfig.__init__ (app_config.py), load_model and get_llm_response     *)
(* (model_utils.py), the speech engine (text_to_speech.py), the Gradio     *)
(* application (app.py) and the Streamlit script (Main.py).                *)
(*                                                                         *)
(* Python values are tagged tuples <<tag, payload>>, so that the JSON      *)
(* types stay distinct and isinstance can be modelled as Python computes   *)
(* it (bool is a subclass of int).  A Python str is a sequence of          *)
(* one-character strings; a dict is a function whose domain is its key     *)
(* set (keys are atoms).                                                   *)
(***************************************************************************)
EXTENDS Integers, Sequences, FiniteSets, TLC

VARIABLES environ, fs, call, stdout, speech_engine

\* app.py: how far the module-level code has run, its globals, the
\* get_response generator Gradio is iterating, the speech threads started
VARIABLES app_pc, chat_app_config, llm, prompt_template, generator, speech_threads

\* Main.py: st.session_state
VARIABLES session_state

app_vars == <<app_pc, chat_app_config, llm, prompt_template, generator, speech_threads, session_state>>

vars == <<environ, fs, call, stdout, speech_engine, app_vars>>

(***************************************************************************)
(* Bounds of the model.                                                    *)
(***************************************************************************)
MaxVars == 2

MaxTemplateLen == 5

(***************************************************************************)
(* Python / JSON values.                                                   *)
(***************************************************************************)
None == <<"null">>

JBool(b) == <<"bool", b>>

JInt(n) == <<"int", n>>

\* a number with a fractional part; the payload is its count of tenths
JFloat(tenths) == <<"float", tenths>>

JStr(s) == <<"str", s>>

JList(items) == <<"list", items>>

JDict(f) == <<"dict", f>>

EmptyDict == [k \in {} |-> None]

TypeOf(v) == v[1]

\* isinstance(v, bool)
IsBool(v) == TypeOf(v) = "bool"

\* isinstance(v, int): bool is a subclass of int
IsInt(v) == TypeOf(v) \in {"int", "bool"}

\* isinstance(v, (int, float))
IsIntOrFloat(v) == TypeOf(v) \in {"int", "float", "bool"}

\* isinstance(v, str)
IsStr(v) == TypeOf(v) = "str"

\* isinstance(v, list)
IsList(v) == TypeOf(v) = "list"

\* isinstance(v, dict)
IsDict(v) == TypeOf(v) = "dict"

\* bool(v): Python truth value
Truthy(v) ==
    CASE TypeOf(v) = "null" -> FALSE
      [] TypeOf(v) = "bool" -> v[2]
      [] TypeOf(v) = "int" -> v[2] # 0
      [] TypeOf(v) = "float" -> v[2] # 0
      [] TypeOf(v) = "str" -> Len(v[2]) > 0
      [] TypeOf(v) = "list" -> Len(v[2]) > 0
      [] TypeOf(v) = "dict" -> DOMAIN v[2] # {}

\* config.get(key, default)
Get(config, key, default) == IF key \in DOMAIN config THEN config[key] ELSE default

Digit == <<"0", "1", "2", "3", "4", "5", "6", "7", "8", "9">>

RECURSIVE IntStr(_)
\* str(n) for a non-negative int
IntStr(n) == IF n < 10 THEN <<Digit[n + 1]>> ELSE IntStr(n \div 10) \o <<Digit[(n % 10) + 1]>>

\* str(v), as an f-string renders a value (scalars only)
PyStr(v) ==
    CASE TypeOf(v) = "str" -> v[2]
      [] TypeOf(v) = "int" -> IntStr(v[2])
      [] TypeOf(v) = "bool" -> IF v[2] THEN <<"T", "r", "u", "e">> ELSE <<"F", "a", "l", "s", "e">>
      [] TypeOf(v) = "null" -> <<"N", "o", "n", "e">>

\* needle in haystack, for two Python strs
Contains(haystack, needle) ==
    \E i \in 0..(Len(haystack) - Len(needle)) :
        SubSeq(haystack, i + 1, i + Len(needle)) = needle

\* a local variable: e is evaluated once, and body computed from its value
Bind(e, body(_)) == CHOOSE y \in { body(x) : x \in {e} } : TRUE

\* how a call ends: it returns val, or raises exc carrying val
Return(v) == [exc |-> "None", val |-> v]

Raise(kind, v) == [exc |-> kind, val |-> v]

\* no pyttsx3 engine has been made
NoEngine == [engine |-> "none"]

\* a global of app.py that no statement has bound yet
NotLoaded == [bound |-> FALSE]

\* no get_response generator has been made
NoGenerator == [pc |-> "none"]

\* a fresh Streamlit session
NoSessionState == [k \in {} |-> None]

\* neither application has run a statement
AppNotStarted ==
    /\ app_pc = "not started"
    /\ chat_app_config = NotLoaded
    /\ llm = NotLoaded
    /\ prompt_template = NotLoaded
    /\ generator = NoGenerator
    /\ speech_threads = <<>>
    /\ session_state = NoSessionState

OpenAI == <<"O", "p", "e", "n", "A", "I">>

Ollama == <<"O", "l", "l", "a", "m", "a">>

(***************************************************************************)
(* config_validator.validate_model_config                                  *)
(***************************************************************************)
\* lines 46-49
use_remote_model_errors(config) ==
    IF "use_remote_model" \notin DOMAIN config
    THEN <<<<"Missing required field: 'use_remote_model'">>>>
    ELSE IF ~IsBool(config["use_remote_model"])
    THEN <<<<"'use_remote_model' must be a boolean (true/false)">>>>
    ELSE <<>>

\* lines 51-56
model_source_errors(config) ==
    IF "model_source" \notin DOMAIN config
    THEN <<<<"Missing required field: 'model_source'">>>>
    ELSE IF config["model_source"] \notin {JStr(OpenAI), JStr(Ollama)}
    THEN <<<<"Invalid 'model_source': '", PyStr(config["model_source"]),
             "'. Must be 'OpenAI' or 'Ollama'">>>>
    ELSE <<>>

\* lines 58-61
model_name_errors(config) ==
    IF "model_name" \notin DOMAIN config
    THEN <<<<"Missing required field: 'model_name'">>>>
    ELSE IF ~IsStr(config["model_name"])
    THEN <<<<"'model_name' must be a string">>>>
    ELSE <<>>

\* lines 63-66
model_parameters_errors(config) ==
    IF "model_parameters" \notin DOMAIN config
    THEN <<<<"Missing required field: 'model_parameters'">>>>
    ELSE IF ~IsDict(config["model_parameters"])
    THEN <<<<"'model_parameters' must be a dictionary">>>>
    ELSE <<>>

\* mutant of getenv_falsy: `os.getenv(name) is None`, an empty key passes
getenv_unset_only(env, name) == name \notin DOMAIN env

\* not os.getenv("OPENAI_API_KEY"): unset, or set to the empty string
getenv_falsy(env, name) == name \notin DOMAIN env \/ Len(env[name]) = 0

\* lines 69-77
openai_errors(config, env) ==
    IF Truthy(Get(config, "use_remote_model", None))
       /\ Get(config, "model_source", None) = JStr(OpenAI)
       /\ getenv_falsy(env, "OPENAI_API_KEY")
    THEN <<<<"OPENAI_API_KEY environment variable is required for OpenAI models">>>>
    ELSE <<>>

\* lines 80-87
ollama_errors(config) ==
    IF ~Truthy(Get(config, "use_remote_model", JBool(TRUE)))
       /\ Get(config, "model_source", None) = JStr(Ollama)
    THEN (IF "use_gpu" \in DOMAIN config /\ ~IsBool(config["use_gpu"])
          THEN <<<<"'use_gpu' must be a boolean if specified">>>> ELSE <<>>)
         \o
         (IF "num_gpu" \in DOMAIN config /\ ~IsInt(config["num_gpu"])
          THEN <<<<"'num_gpu' must be an integer if specified">>>> ELSE <<>>)
    ELSE <<>>

\* mutant of validate_model_config: the checks chained with elif, so that the
\* first failing one hides the rest
validate_model_config_first_error(config, env) ==
    LET errors ==
            IF Len(use_remote_model_errors(config)) > 0 THEN use_remote_model_errors(config)
            ELSE IF Len(model_source_errors(config)) > 0 THEN model_source_errors(config)
            ELSE IF Len(model_name_errors(config)) > 0 THEN model_name_errors(config)
            ELSE IF Len(model_parameters_errors(config)) > 0
            THEN model_parameters_errors(config)
            ELSE openai_errors(config, env) \o ollama_errors(config)
    IN Return(<<Len(errors) = 0, errors>>)

validate_model_config(config, env) ==
    LET errors == use_remote_model_errors(config) \o model_source_errors(config)
                  \o model_name_errors(config) \o model_parameters_errors(config)
                  \o openai_errors(config, env) \o ollama_errors(config)
    IN Return(<<Len(errors) = 0, errors>>)

(***************************************************************************)
(* config_validator.validate_prompt_config                                 *)
(***************************************************************************)
\* lines 103-106
input_variables_errors(config) ==
    IF "input_variables" \notin DOMAIN config
    THEN <<<<"Missing required field: 'input_variables'">>>>
    ELSE IF ~IsList(config["input_variables"])
    THEN <<<<"'input_variables' must be a list">>>>
    ELSE <<>>

\* lines 108-111
template_errors(config) ==
    IF "template" \notin DOMAIN config
    THEN <<<<"Missing required field: 'template'">>>>
    ELSE IF ~IsStr(config["template"])
    THEN <<<<"'template' must be a string">>>>
    ELSE <<>>

\* whether `for var in v` can start: lists and strs are iterated here
\* (mappings are not among the values drawn for these two fields)
Iterable(v) == TypeOf(v) \in {"list", "str"}

\* the items `for var in v` visits: a list's elements, a str's characters
IterItems(v) ==
    IF TypeOf(v) = "list" THEN v[2] ELSE [i \in 1..Len(v[2]) |-> JStr(<<v[2][i]>>)]

\* f"{{{var}}}"
placeholder(var) == <<"{">> \o PyStr(var) \o <<"}">>

\* whether `needle in container` is defined: a str or a list on the right
SupportsIn(container) == TypeOf(container) \in {"str", "list"}

\* needle in container, needle a str
PyIn(needle, container) ==
    IF TypeOf(container) = "str" THEN Contains(container[2], needle)
    ELSE \E i \in 1..Len(container[2]) : container[2][i] = JStr(needle)

\* mutant of check_placeholders: a `break` after the first missing placeholder
check_placeholders_first_missing(items, template, errors) ==
    LET missing == { i \in 1..Len(items) : ~PyIn(placeholder(items[i]), template) }
        first == CHOOSE i \in missing : \A j \in missing : i <= j
    IN IF Len(items) = 0 THEN Return(errors)
       ELSE IF ~SupportsIn(template)
       THEN Raise("TypeError", <<<<"argument is not iterable">>>>)
       ELSE IF missing = {} THEN Return(errors)
       ELSE Return(Append(errors, <<"Input variable '", PyStr(items[first]),
                                    "' not found in template string">>))

RECURSIVE check_placeholders(_, _, _)
\* lines 115-119: the loop body over the items still to visit
check_placeholders(items, template, errors) ==
    IF Len(items) = 0 THEN Return(errors)
    ELSE IF ~SupportsIn(template)
    THEN Raise("TypeError", <<<<"argument is not iterable">>>>)
    ELSE check_placeholders(
            Tail(items), template,
            IF ~PyIn(placeholder(Head(items)), template)
            THEN Append(errors, <<"Input variable '", PyStr(Head(items)),
                                  "' not found in template string">>)
            ELSE errors)

validate_prompt_config(config) ==
    LET errors == input_variables_errors(config) \o template_errors(config)
        checked ==
            IF "input_variables" \in DOMAIN config /\ "template" \in DOMAIN config
            THEN IF ~Iterable(config["input_variables"])
                 THEN Raise("TypeError", <<<<"object is not iterable">>>>)
                 ELSE check_placeholders(IterItems(config["input_variables"]),
                                         config["template"], errors)
            ELSE Return(errors)
    IN IF checked.exc = "None"
       THEN Return(<<Len(checked.val) = 0, checked.val>>)
       ELSE checked

(***************************************************************************)
(* config_validator.validate_response_config / validate_theme_config       *)
(***************************************************************************)
\* one `if key in config and not isinstance(config[key], T)` block
optional_field_errors(config, key, well_typed, message) ==
    IF key \in DOMAIN config /\ ~well_typed THEN <<<<message>>>> ELSE <<>>

validate_response_config(config) ==
    LET errors ==
            optional_field_errors(config, "speak_responses",
                IsBool(Get(config, "speak_responses", None)),
                "'speak_responses' must be a boolean if specified")
         \o optional_field_errors(config, "response_delay_time",
                IsIntOrFloat(Get(config, "response_delay_time", None)),
                "'response_delay_time' must be a number if specified")
         \o optional_field_errors(config, "response_stream_lag_time",
                IsIntOrFloat(Get(config, "response_stream_lag_time", None)),
                "'response_stream_lag_time' must be a number if specified")
         \o optional_field_errors(config, "speech_rate_wpm",
                IsIntOrFloat(Get(config, "speech_rate_wpm", None)),
                "'speech_rate_wpm' must be a number if specified")
         \o optional_field_errors(config, "voice_name",
                IsStr(Get(config, "voice_name", None)),
                "'voice_name' must be a string if specified")
    IN Return(<<Len(errors) = 0, errors>>)

validate_theme_config(config) ==
    LET errors ==
            optional_field_errors(config, "app_name",
                IsStr(Get(config, "app_name", None)),
                "'app_name' must be a string if specified")
         \o optional_field_errors(config, "source_theme",
                IsStr(Get(config, "source_theme", None)),
                "'source_theme' must be a string if specified")
         \o optional_field_errors(config, "load_theme_from_hf_hub",
                IsBool(Get(config, "load_theme_from_hf_hub", None)),
                "'load_theme_from_hf_hub' must be a boolean if specified")
         \o optional_field_errors(config, "font",
                IsList(Get(config, "font", None)),
                "'font' must be a list if specified")
    IN Return(<<Len(errors) = 0, errors>>)

(***************************************************************************)
(* config_validator.validate_all_configs                                   *)
(***************************************************************************)
\* mutant of section_lines: only the first error of a section is kept
section_lines_first_error(header, result) ==
    IF ~result[1] THEN <<<<header>>, <<"  - ">> \o result[2][1]>> ELSE <<>>

\* lines 228-230 (and the three blocks like it): header, then one item per error
section_lines(header, result) ==
    IF ~result[1]
    THEN <<<<header>>>> \o [i \in 1..Len(result[2]) |-> <<"  - ">> \o result[2][i]]
    ELSE <<>>

\* lines 224-245; the four validators have returned m, p, r and t
collect_all_errors(m, p, r, t) ==
    section_lines("Model Configuration Errors:", m)
    \o section_lines("Prompt Configuration Errors:", p)
    \o section_lines("Response Configuration Errors:", r)
    \o section_lines("Theme Configuration Errors:", t)

\* lines 225-252: the four validators have ended as m, p, r and t, the first
\* that raised ending the call; the message is modelled as its sequence of
\* lines ("\n".join)
raise_all_errors(m, p, r, t) ==
    IF m.exc # "None" THEN m
    ELSE IF p.exc # "None" THEN p
    ELSE IF r.exc # "None" THEN r
    ELSE IF t.exc # "None" THEN t
    ELSE LET all_errors == collect_all_errors(m.val, p.val, r.val, t.val)
         IN IF Len(all_errors) > 0
            THEN Raise("ConfigValidationError",
                       <<<<"Configuration validation failed:">>, <<"">>>> \o all_errors)
            ELSE Return(None)

validate_all_configs(model_config, prompt_config, response_config, theme_config, env) ==
    raise_all_errors(validate_model_config(model_config, env),
                     validate_prompt_config(prompt_config),
                     validate_response_config(response_config),
                     validate_theme_config(theme_config))

\* A validator called on a section that is no mapping.  `key in config` raises
\* TypeError on None, a bool or a number.  Nothing is in an empty list, so every
\* `key in config` is False there: validate_model_config gets to config.get
\* (line 70), which a list does not have, validate_prompt_config reports both
\* fields missing, and the other two find nothing to check.
validate_non_mapping(section_name, config) ==
    CASE TypeOf(config) \in {"null", "bool", "int", "float"} ->
           Raise("TypeError", <<<<"argument of type '", TypeOf(config),
                                 "' is not iterable">>>>)
      [] config = JList(<<>>) /\ section_name = "model" ->
           Raise("AttributeError", <<<<"'list' object has no attribute 'get'">>>>)
      [] config = JList(<<>>) /\ section_name = "prompt" ->
           Return(<<FALSE, <<<<"Missing required field: 'input_variables'">>,
                            <<"Missing required field: 'template'">>>>>>)
      [] config = JList(<<>>) /\ section_name \in {"response", "theme"} ->
           Return(<<TRUE, <<>>>>)

\* validate_all_configs on the sections as they were read, mappings or not
validate_all_sections(model_config, prompt_config, response_config, theme_config, env) ==
    raise_all_errors(
        IF IsDict(model_config) THEN validate_model_config(model_config[2], env)
        ELSE validate_non_mapping("model", model_config),
        IF IsDict(prompt_config) THEN validate_prompt_config(prompt_config[2])
        ELSE validate_non_mapping("prompt", prompt_config),
        IF IsDict(response_config) THEN validate_response_config(response_config[2])
        ELSE validate_non_mapping("response", response_config),
        IF IsDict(theme_config) THEN validate_theme_config(theme_config[2])
        ELSE validate_non_mapping("theme", theme_config))

(***************************************************************************)
(* JSON text, as json.dump writes it and json.load reads it.  A text is    *)
(* the sequence of its tokens; a string token carries its characters as    *)
(* written (escaped), a number token its digits.  An object key is an      *)
(* atom and is carried as it is.                                           *)
(***************************************************************************)
Quote == "\""

Backslash == "\\"

RECURSIVE escape(_)
\* the characters of a str as written between quotes
escape(chars) ==
    IF Len(chars) = 0 THEN <<>>
    ELSE (IF Head(chars) \in {Quote, Backslash} THEN <<Backslash, Head(chars)>>
          ELSE <<Head(chars)>>) \o escape(Tail(chars))

ParseOk(v, rest) == [ok |-> TRUE, val |-> v, rest |-> rest]

ParseFail == [ok |-> FALSE, val |-> None, rest |-> <<>>]

\* mutant of unescape: the characters are kept as written, escapes and all
unescape_kept_as_written(chars) == ParseOk(chars, <<>>)

RECURSIVE unescape(_)
\* the str a string token stands for; fails on a bare quote or a bad escape
unescape(chars) ==
    IF Len(chars) = 0 THEN ParseOk(<<>>, <<>>)
    ELSE IF Head(chars) = Quote THEN ParseFail
    ELSE IF Head(chars) = Backslash
    THEN IF Len(chars) < 2 \/ chars[2] \notin {Quote, Backslash} THEN ParseFail
         ELSE Bind(unescape(Tail(Tail(chars))), LAMBDA more :
                IF more.ok THEN ParseOk(<<chars[2]>> \o more.val, <<>>) ELSE ParseFail)
    ELSE Bind(unescape(Tail(chars)), LAMBDA more :
           IF more.ok THEN ParseOk(<<Head(chars)>> \o more.val, <<>>) ELSE ParseFail)

\* the digits of a float with one decimal place
FloatStr(tenths) == IntStr(tenths \div 10) \o <<".">> \o IntStr(tenths % 10)

DigitValue(c) == CHOOSE d \in 0..9 : Digit[d + 1] = c

RECURSIVE digits_value(_, _)
digits_value(chars, acc) ==
    IF Len(chars) = 0 THEN acc
    ELSE digits_value(Tail(chars), 10 * acc + DigitValue(Head(chars)))

\* the number a number token stands for: an int, or a float if it has a point
number_value(chars) ==
    IF \E i \in 1..Len(chars) : chars[i] = "."
    THEN JFloat(digits_value(SelectSeq(chars, LAMBDA c : c # "."), 0))
    ELSE JInt(digits_value(chars, 0))

RECURSIVE json_dump(_), dump_items(_), dump_members(_, _)
\* json.dump(value): the tokens written
json_dump(v) ==
    CASE TypeOf(v) = "null" -> <<<<"null">>>>
      [] TypeOf(v) = "bool" -> IF v[2] THEN <<<<"true">>>> ELSE <<<<"false">>>>
      [] TypeOf(v) = "int" -> <<<<"number", IntStr(v[2])>>>>
      [] TypeOf(v) = "float" -> <<<<"number", FloatStr(v[2])>>>>
      [] TypeOf(v) = "str" -> <<<<"string", escape(v[2])>>>>
      [] TypeOf(v) = "list" -> <<<<"[">>>> \o dump_items(v[2]) \o <<<<"]">>>>
      [] TypeOf(v) = "dict" -> <<<<"{">>>> \o dump_members(v[2], DOMAIN v[2]) \o <<<<"}">>>>

dump_items(items) ==
    IF Len(items) = 0 THEN <<>>
    ELSE json_dump(Head(items))
         \o (IF Len(items) > 1 THEN <<<<",">>>> ELSE <<>>) \o dump_items(Tail(items))

dump_members(f, keys) ==
    IF keys = {} THEN <<>>
    ELSE LET k == CHOOSE x \in keys : TRUE
         IN <<<<"string", k>>, <<":">>>> \o json_dump(f[k])
            \o (IF keys # {k} THEN <<<<",">>>> ELSE <<>>) \o dump_members(f, keys \ {k})

RECURSIVE parse_value(_), parse_items(_, _), parse_members(_, _)
\* one JSON value at the front of the tokens
parse_value(toks) ==
    IF Len(toks) = 0 THEN ParseFail
    ELSE LET t == Head(toks)
             rest == Tail(toks)
         IN CASE t[1] = "null" -> ParseOk(None, rest)
              [] t[1] = "true" -> ParseOk(JBool(TRUE), rest)
              [] t[1] = "false" -> ParseOk(JBool(FALSE), rest)
              [] t[1] = "number" -> ParseOk(number_value(t[2]), rest)
              [] t[1] = "string" ->
                    Bind(unescape(t[2]), LAMBDA chars :
                        IF chars.ok THEN ParseOk(JStr(chars.val), rest) ELSE ParseFail)
              [] t[1] = "[" ->
                    (IF Len(rest) > 0 /\ Head(rest)[1] = "]"
                     THEN ParseOk(JList(<<>>), Tail(rest)) ELSE parse_items(rest, <<>>))
              [] t[1] = "{" ->
                    (IF Len(rest) > 0 /\ Head(rest)[1] = "}"
                     THEN ParseOk(JDict(EmptyDict), Tail(rest))
                     ELSE parse_members(rest, EmptyDict))
              [] OTHER -> ParseFail

\* value (, value)* ]
parse_items(toks, acc) ==
    Bind(parse_value(toks), LAMBDA v :
        IF ~v.ok \/ Len(v.rest) = 0 THEN ParseFail
        ELSE IF Head(v.rest)[1] = "]" THEN ParseOk(JList(Append(acc, v.val)), Tail(v.rest))
        ELSE IF Head(v.rest)[1] = "," THEN parse_items(Tail(v.rest), Append(acc, v.val))
        ELSE ParseFail)

\* string : value (, string : value)* }    a repeated key keeps its last value
parse_members(toks, acc) ==
    IF Len(toks) < 2 \/ toks[1][1] # "string" \/ toks[2][1] # ":" THEN ParseFail
    ELSE Bind(parse_value(SubSeq(toks, 3, Len(toks))), LAMBDA v :
           Bind([x \in DOMAIN acc \cup {toks[1][2]} |->
                    IF x = toks[1][2] THEN v.val ELSE acc[x]], LAMBDA more :
             IF ~v.ok \/ Len(v.rest) = 0 THEN ParseFail
             ELSE IF Head(v.rest)[1] = "}" THEN ParseOk(JDict(more), Tail(v.rest))
             ELSE IF Head(v.rest)[1] = "," THEN parse_members(Tail(v.rest), more)
             ELSE ParseFail))

\* json.load(f): the whole text is one value, or JSONDecodeError
json_load(text) ==
    Bind(parse_value(text), LAMBDA parsed :
        IF parsed.ok /\ Len(parsed.rest) = 0
        THEN Return(parsed.val)
        ELSE Raise("JSONDecodeError", <<<<"Expecting value">>>>))

(***************************************************************************)
(* The inputs the validators are called with.  A config is built from a    *)
(* choice per field, Absent standing for a key the mapping does not have.  *)
(***************************************************************************)
Absent == <<"absent">>

\* the mapping holding exactly the fields that were given
MkConfig(fields) == [k \in {x \in DOMAIN fields : fields[x] # Absent} |-> fields[k]]

SomeName == <<"m">>

ModelConfigsOver(urm, src, name, params, gpu, ngpu) ==
    { MkConfig([use_remote_model |-> a, model_source |-> b, model_name |-> c,
                model_parameters |-> d, use_gpu |-> e, num_gpu |-> f]) :
        a \in urm, b \in src, c \in name, d \in params, e \in gpu, f \in ngpu }

ModelConfigs ==
    ModelConfigsOver(
        {Absent, JBool(TRUE), JBool(FALSE), JStr(<<"y", "e", "s">>), JInt(0)},
        {Absent, JStr(OpenAI), JStr(Ollama), JStr(<<"X">>), JInt(5)},
        {Absent, JStr(SomeName), JInt(4)},
        {Absent, JDict(EmptyDict), JDict([temperature |-> JInt(1)]), JStr(SomeName)},
        {Absent, JBool(TRUE), JStr(<<"y", "e", "s">>), JInt(1)},
        {Absent, JInt(1), JBool(TRUE), JStr(<<"1">>), JFloat(15)})

\* all sequences over S of length at most n
SeqsUpTo(S, n) == UNION { [1..k -> S] : k \in 0..n }

TemplateChars == {"{", "}", "a", "b"}

VariableNames == {<<"a">>, <<"b">>}

PromptConfigsOver(ivs, tpls) ==
    { MkConfig([input_variables |-> a, template |-> b]) : a \in ivs, b \in tpls }

PromptConfigs ==
    PromptConfigsOver(
        { JList(l) : l \in SeqsUpTo({JStr(v) : v \in VariableNames}, MaxVars) }
            \cup {Absent, JStr(<<"a", "b">>), JInt(5), None},
        { JStr(t) : t \in SeqsUpTo(TemplateChars, MaxTemplateLen) }
            \cup {Absent, JInt(5), JList(<<JStr(<<"{", "a", "}">>)>>)})

ResponseConfigsOver(speak, delay, lag, rate, voice) ==
    { MkConfig([speak_responses |-> a, response_delay_time |-> b,
                response_stream_lag_time |-> c, speech_rate_wpm |-> d,
                voice_name |-> e]) :
        a \in speak, b \in delay, c \in lag, d \in rate, e \in voice }

ResponseConfigs ==
    ResponseConfigsOver(
        {Absent, JBool(TRUE), JBool(FALSE), JStr(<<"y", "e", "s">>), JInt(1)},
        {Absent, JInt(3), JFloat(5), JStr(<<"3">>), JBool(TRUE)},
        {Absent, JFloat(1), JStr(<<"1">>)},
        {Absent, JInt(140), JStr(<<"f", "a", "s", "t">>), JBool(TRUE)},
        {Absent, JStr(<<"S", "a", "m">>), JInt(7)})

ThemeConfigsOver(name, theme, hub, font) ==
    { MkConfig([app_name |-> a, source_theme |-> b, load_theme_from_hf_hub |-> c,
                font |-> d]) :
        a \in name, b \in theme, c \in hub, d \in font }

ThemeConfigs ==
    ThemeConfigsOver(
        {Absent, JStr(<<"A", "p", "p">>), JInt(5)},
        {Absent, JStr(<<"s", "o", "f", "t">>), JBool(TRUE)},
        {Absent, JBool(FALSE), JStr(<<"n", "o">>), JInt(0)},
        {Absent, JList(<<JStr(<<"A">>)>>), JStr(<<"A">>), JDict([family |-> JStr(<<"A">>)])})

\* the configs validate_all_configs is called with: every section ranges over
\* valid configs, configs with one defect and configs with several
AllModelConfigs ==
    ModelConfigsOver({Absent, JBool(TRUE), JStr(<<"y", "e", "s">>)},
                     {Absent, JStr(OpenAI), JStr(<<"X">>)},
                     {JStr(SomeName)}, {Absent, JDict(EmptyDict)}, {Absent}, {Absent})

AllPromptConfigs ==
    PromptConfigsOver(
        {Absent, JList(<<JStr(<<"a">>)>>), JList(<<JStr(<<"a">>), JStr(<<"b">>)>>), JInt(5)},
        {Absent, JStr(<<"{", "a", "}">>), JInt(5)})

AllResponseConfigs ==
    ResponseConfigsOver({Absent, JBool(TRUE), JStr(<<"y", "e", "s">>)}, {Absent}, {Absent},
                        {Absent, JInt(140), JStr(<<"f", "a", "s", "t">>)}, {Absent})

AllThemeConfigs ==
    ThemeConfigsOver({Absent, JStr(<<"A", "p", "p">>), JInt(5)}, {Absent}, {Absent},
                     {Absent, JList(<<JStr(<<"A">>)>>), JStr(<<"A">>)})

\* os.environ: OPENAI_API_KEY unset, set to the empty string, or set to a key
NoEnv == [k \in {} |-> <<>>]

Environs == {NoEnv, [OPENAI_API_KEY |-> <<>>], [OPENAI_API_KEY |-> <<"s", "k">>]}

NoFiles == [p \in {} |-> <<>>]

(***************************************************************************)
(* The validator under test: one call in a fresh process.                  *)
(***************************************************************************)
\* the record of a call: what was called with what, and how it ended
NoCall == [op |-> "none", args |-> <<>>, exc |-> "None", val |-> None]

Called(op, args, outcome) ==
    [op |-> op, args |-> args, exc |-> outcome.exc, val |-> outcome.val]

InitValidate ==
    /\ environ \in Environs
    /\ fs = NoFiles
    /\ call = NoCall
    /\ stdout = <<>>
    /\ speech_engine = NoEngine
    /\ AppNotStarted

CallValidateModelConfig ==
    /\ call = NoCall
    /\ \E config \in ModelConfigs :
         call' = Called("validate_model_config", <<config>>,
                        validate_model_config(config, environ))
    /\ UNCHANGED <<environ, fs, stdout, speech_engine, app_vars>>

CallValidatePromptConfig ==
    /\ call = NoCall
    /\ \E config \in PromptConfigs :
         call' = Called("validate_prompt_config", <<config>>,
                        validate_prompt_config(config))
    /\ UNCHANGED <<environ, fs, stdout, speech_engine, app_vars>>

CallValidateResponseConfig ==
    /\ call = NoCall
    /\ \E config \in ResponseConfigs :
         call' = Called("validate_response_config", <<config>>,
                        validate_response_config(config))
    /\ UNCHANGED <<environ, fs, stdout, speech_engine, app_vars>>

CallValidateThemeConfig ==
    /\ call = NoCall
    /\ \E config \in ThemeConfigs :
         call' = Called("validate_theme_config", <<config>>,
                        validate_theme_config(config))
    /\ UNCHANGED <<environ, fs, stdout, speech_engine, app_vars>>

CallValidateAllConfigs ==
    /\ call = NoCall
    /\ \E m \in AllModelConfigs, p \in AllPromptConfigs,
          r \in AllResponseConfigs, t \in AllThemeConfigs :
         call' = Called("validate_all_configs", <<m, p, r, t>>,
                        validate_all_configs(m, p, r, t, environ))
    /\ UNCHANGED <<environ, fs, stdout, speech_engine, app_vars>>

NextValidate ==
    \/ CallValidateModelConfig
    \/ CallValidatePromptConfig
    \/ CallValidateResponseConfig
    \/ CallValidateThemeConfig
    \/ CallValidateAllConfigs

SpecValidate == InitValidate /\ [][NextValidate]_vars

(***************************************************************************)
(* app_config.load_config.  The file system maps a path to what is there:  *)
(* a regular file with its text, or something open() cannot read.  A path  *)
(* outside its domain does not exist.                                      *)
(***************************************************************************)
RegularFile(text) == [kind |-> "file", text |-> text]

Directory == [kind |-> "directory", text |-> <<>>]

\* open(filepath) and the read of its content
open_and_read(files, filepath) ==
    IF filepath \notin DOMAIN files THEN Raise("FileNotFoundError", <<filepath>>)
    ELSE IF files[filepath].kind # "file" THEN Raise("IsADirectoryError", <<filepath>>)
    ELSE Return(files[filepath].text)

\* how a call that prints ends: Return or Raise, and the lines printed
Ended(outcome, printed) == [exc |-> outcome.exc, val |-> outcome.val, out |-> printed]

\* sys.exit(1)
SystemExit1 == Raise("SystemExit", JInt(1))

\* mutant of load_config: `except json.JSONDecodeError: return {}`
load_config_empty_on_bad_json(files, filepath) ==
    Bind(IF open_and_read(files, filepath).exc = "None"
         THEN json_load(open_and_read(files, filepath).val)
         ELSE open_and_read(files, filepath), LAMBDA data :
      CASE data.exc = "None" -> Ended(Return(data.val), <<>>)
        [] data.exc = "JSONDecodeError" -> Ended(Return(JDict(EmptyDict)), <<>>)
        [] OTHER ->
             Ended(SystemExit1,
                   <<<<"ERROR: Failed to load configuration file: ", filepath>>,
                     <<"Error: ", data.exc>>>>))

\* lines 33-49
load_config(files, filepath) ==
    Bind(IF open_and_read(files, filepath).exc = "None"
         THEN json_load(open_and_read(files, filepath).val)
         ELSE open_and_read(files, filepath), LAMBDA data :
      CASE data.exc = "None" -> Ended(Return(data.val), <<>>)
        [] data.exc = "FileNotFoundError" ->
             Ended(SystemExit1,
                   <<<<"ERROR: Configuration file not found: ", filepath>>,
                     <<"Please ensure the file exists or check your CONFIG_PATH environment variable.">>>>)
        [] data.exc = "JSONDecodeError" ->
             Ended(SystemExit1,
                   <<<<"ERROR: Invalid JSON in configuration file: ", filepath>>,
                     <<"JSON Error: ", data.val>>,
                     <<"Please check the file for syntax errors.">>>>)
        [] OTHER ->
             Ended(SystemExit1,
                   <<<<"ERROR: Failed to load configuration file: ", filepath>>,
                     <<"Error: ", data.exc>>>>))

(***************************************************************************)
(* app_config.AppConfig.__init__                                           *)
(***************************************************************************)
DEFAULT_CONFIG_PATH == "./config/unified_config_example.json"

DefaultAppName ==
    JStr(<<"L", "L", "M", " ", "V", "o", "i", "c", "e", " ", "C", "h", "a", "t">>)

DefaultVersion == JStr(<<"1", ".", "0", ".", "0">>)

\* lines 126-135: the required section that is missing, if any
missing_section(config) ==
    IF "model" \notin DOMAIN config THEN "model"
    ELSE IF "prompt" \notin DOMAIN config THEN "prompt"
    ELSE "none"

\* mutant of theme_with_app_name: the theme section is left as it was read
theme_left_as_read(theme_config, app_name) == theme_config

\* lines 143-144
theme_with_app_name(theme_config, app_name) ==
    IF "app_name" \notin DOMAIN theme_config[2]
    THEN JDict([k \in DOMAIN theme_config[2] \cup {"app_name"} |->
                   IF k = "app_name" THEN app_name ELSE theme_config[2][k]])
    ELSE theme_config

\* how the constructor ends, what it printed and the calls it made on the way
Constructed(outcome, printed, steps) ==
    [exc |-> outcome.exc, val |-> outcome.val, out |-> printed, steps |-> steps]

\* lines 137-157: the sections are taken from config and validated.  Line 143
\* raises TypeError on a theme section that is no mapping: `in` on None, a bool
\* or a number, the item assignment on a list.
sections_and_validation(config, app_name, version, env, validate, loading) ==
    IF ~IsDict(Get(config, "theme", JDict(EmptyDict)))
    THEN Constructed(Raise("TypeError", <<<<"theme_config">>>>), <<>>, loading)
    ELSE
    Bind([app_name |-> app_name,
          version |-> version,
          model_config |-> config["model"],
          prompt_config |-> config["prompt"],
          response_config |-> Get(config, "response", JDict(EmptyDict)),
          theme_config |->
              theme_with_app_name(Get(config, "theme", JDict(EmptyDict)), app_name)],
         LAMBDA self :
      IF ~validate THEN Constructed(Return(self), <<>>, loading)
      ELSE
      Bind(validate_all_sections(self.model_config, self.prompt_config,
                                 self.response_config, self.theme_config, env),
           LAMBDA validated :
        LET validating == <<<<"validate_all_configs", self.model_config,
                              self.prompt_config, self.response_config,
                              self.theme_config>>>>
        IN IF validated.exc = "None"
           THEN Constructed(Return(self), <<>>, loading \o validating)
           ELSE IF validated.exc = "ConfigValidationError"
           THEN Constructed(SystemExit1, <<validated.val>>,
                            loading \o validating \o <<<<"sys.exit">>>>)
           ELSE Constructed(validated, <<>>, loading \o validating)))

\* lines 116-157
AppConfig_init(files, env, validate) ==
    Bind(load_config(files, Get(env, "CONFIG_PATH", DEFAULT_CONFIG_PATH)), LAMBDA loaded :
      LET config_path == Get(env, "CONFIG_PATH", DEFAULT_CONFIG_PATH)
          loading == <<<<"load_config", config_path>>>>
      IN IF loaded.exc # "None"
         THEN Constructed(loaded, loaded.out, loading \o <<<<"sys.exit">>>>)
         ELSE IF ~IsDict(loaded.val)
         THEN Constructed(Raise("AttributeError", <<"get">>), <<>>, loading)
         ELSE IF missing_section(loaded.val[2]) # "none"
         THEN Constructed(SystemExit1,
                  <<<<"ERROR: Configuration file missing '",
                      missing_section(loaded.val[2]), "' section: ", config_path>>>>,
                  loading \o <<<<"sys.exit">>>>)
         ELSE sections_and_validation(
                  loaded.val[2],
                  Get(loaded.val[2], "app_name", DefaultAppName),
                  Get(loaded.val[2], "version", DefaultVersion),
                  env, validate, loading))

(***************************************************************************)
(* The files and values load_config and AppConfig are run on.              *)
(***************************************************************************)
MaxListLen == 2

Scalars ==
    {None, JBool(TRUE), JInt(42), JFloat(7), JStr(<<"a">>), JStr(<<"a", Quote, Backslash>>)}

\* scalars, lists of scalars and one-key mappings of scalars
FlatValues ==
    Scalars
    \cup { JList(l) : l \in SeqsUpTo(Scalars, MaxListLen) }
    \cup {JDict(EmptyDict)}
    \cup { JDict([name |-> v]) : v \in Scalars }

\* one more level of nesting
NestedValues ==
    FlatValues
    \cup { JDict([parameters |-> v]) : v \in FlatValues }
    \cup { JList(<<v>>) : v \in FlatValues }

\* JSON-compatible mappings, nested up to three mappings deep
JsonMappings ==
    { JDict(MkConfig([model |-> a, number |-> b])) :
        a \in NestedValues \cup {Absent}, b \in Scalars \cup {Absent} }

SomePath == "./config/my_config.json"

Paths == {DEFAULT_CONFIG_PATH, SomePath}

\* the proper prefixes of a text: a file cut short
Truncations(text) == { SubSeq(text, 1, n) : n \in 0..(Len(text) - 1) }

\* texts that are no JSON document: cut short, with data after the document,
\* or holding a string with a bad escape
MalformedTexts ==
    UNION { Truncations(json_dump(x)) :
              x \in { JDict([model |-> JDict([name |-> JStr(<<"a">>)]),
                             number |-> JInt(42)]),
                      JDict([model |-> JList(<<JInt(42), None>>)]) } }
    \cup { json_dump(x) \o <<<<"}">>>> : x \in {JDict(EmptyDict), JDict([number |-> JInt(42)])} }
    \cup { <<<<"{">>, <<"string", "number">>, <<":">>, <<"string", <<Backslash, "a">>>>, <<"}">>>> }

InitLoad ==
    /\ environ = NoEnv
    /\ fs = NoFiles
    /\ call = NoCall
    /\ stdout = <<>>
    /\ speech_engine = NoEngine
    /\ AppNotStarted

\* with open(path, "w") as f: json.dump(x, f)
JsonDump(values) ==
    /\ call = NoCall
    /\ \E x \in values, path \in Paths :
         /\ fs' = [p \in {path} |-> RegularFile(json_dump(x))]
         /\ call' = Called("json.dump", <<x, path>>, Return(None))
    /\ UNCHANGED <<environ, stdout, speech_engine, app_vars>>

\* a file that is no JSON document is at the path
WriteMalformed ==
    /\ call = NoCall
    /\ \E text \in MalformedTexts, path \in Paths :
         /\ fs' = [p \in {path} |-> RegularFile(text)]
         /\ call' = Called("write", <<text, path>>, Return(None))
    /\ UNCHANGED <<environ, stdout, speech_engine, app_vars>>

\* a directory is at the path
MakeDirectory ==
    /\ call = NoCall
    /\ \E path \in Paths :
         /\ fs' = [p \in {path} |-> Directory]
         /\ call' = Called("mkdir", <<path>>, Return(None))
    /\ UNCHANGED <<environ, stdout, speech_engine, app_vars>>

CallLoadConfig ==
    /\ call.op \in {"none", "json.dump", "write", "mkdir"}
    /\ \E path \in Paths :
         LET ended == load_config(fs, path)
         IN /\ call' = Called("load_config", <<path>>, ended)
            /\ stdout' = stdout \o ended.out
    /\ UNCHANGED <<environ, fs, speech_engine, app_vars>>

NextLoad ==
    \/ JsonDump(JsonMappings)
    \/ WriteMalformed
    \/ MakeDirectory
    \/ CallLoadConfig

SpecLoad == InitLoad /\ [][NextLoad]_vars

\* unified config files: each section absent, valid, or invalid
ValidOpenAIModel ==
    JDict([use_remote_model |-> JBool(TRUE), model_source |-> JStr(OpenAI),
           model_name |-> JStr(SomeName), model_parameters |-> JDict(EmptyDict)])

ValidOllamaModel ==
    JDict([use_remote_model |-> JBool(FALSE), model_source |-> JStr(Ollama),
           model_name |-> JStr(SomeName),
           model_parameters |-> JDict([temperature |-> JInt(1)])])

UnifiedConfigs ==
    { JDict(MkConfig([app_name |-> a, version |-> b, model |-> c, prompt |-> d,
                      response |-> e, theme |-> f])) :
        a \in {Absent, JStr(<<"A", "p", "p">>), JInt(5)},
        b \in {Absent, JStr(<<"2">>)},
        c \in {Absent, ValidOpenAIModel, ValidOllamaModel, JDict(EmptyDict)},
        d \in {Absent,
               JDict([input_variables |-> JList(<<JStr(<<"a">>)>>),
                      template |-> JStr(<<"{", "a", "}">>)]),
               JDict([input_variables |-> JList(<<JStr(<<"a">>)>>),
                      template |-> JStr(<<"a">>)])},
        e \in {Absent, JDict(EmptyDict), JDict([speak_responses |-> JBool(FALSE)]),
               JDict([speak_responses |-> JStr(<<"n", "o">>)])},
        f \in {Absent, JDict([app_name |-> JStr(<<"T">>)]),
               JDict([font |-> JList(<<JStr(<<"A">>)>>)]),
               JDict([font |-> JStr(<<"A">>)])} }

\* unified config files with a section that is no mapping, or a prompt section
\* whose input_variables is no list
IllTypedConfigs ==
    { JDict(MkConfig([model |-> c, prompt |-> d, response |-> e, theme |-> f])) :
        c \in {ValidOpenAIModel, JInt(5), JList(<<>>)},
        d \in {JDict([input_variables |-> JList(<<JStr(<<"a">>)>>),
                      template |-> JStr(<<"{", "a", "}">>)]),
               JDict([input_variables |-> JInt(5), template |-> JStr(<<"{", "a", "}">>)]),
               None, JList(<<>>)},
        e \in {Absent, JList(<<>>), JBool(TRUE)},
        f \in {Absent, None, JList(<<>>)} }

\* files whose top-level JSON value is no mapping
TopLevelValues == {None, JInt(5), JStr(<<"a">>), JList(<<>>)}

\* CONFIG_PATH unset or set, OPENAI_API_KEY unset or set
AppEnvirons ==
    {NoEnv, [CONFIG_PATH |-> SomePath], [OPENAI_API_KEY |-> <<"s", "k">>],
     [CONFIG_PATH |-> SomePath, OPENAI_API_KEY |-> <<"s", "k">>]}

InitAppConfig ==
    /\ environ \in AppEnvirons
    /\ fs = NoFiles
    /\ call = NoCall
    /\ stdout = <<>>
    /\ speech_engine = NoEngine
    /\ AppNotStarted

\* chat_app_config = app_config.AppConfig(validate)
CallAppConfig ==
    /\ call.op \in {"none", "json.dump", "write"}
    /\ \E validate \in BOOLEAN :
         LET ended == AppConfig_init(fs, environ, validate)
         IN /\ call' = [op |-> "AppConfig", args |-> <<validate>>, exc |-> ended.exc,
                        val |-> ended.val, steps |-> ended.steps]
            /\ stdout' = stdout \o ended.out
    /\ UNCHANGED <<environ, fs, speech_engine, app_vars>>

NextAppConfig ==
    \/ JsonDump(UnifiedConfigs \cup IllTypedConfigs \cup TopLevelValues)
    \/ WriteMalformed
    \/ CallAppConfig

SpecAppConfig == InitAppConfig /\ [][NextAppConfig]_vars

(***************************************************************************)
(* Properties of the validators.                                           *)
(***************************************************************************)
InSeq(x, s) == \E i \in 1..Len(s) : s[i] = x

SectionHeader(i) ==
    CASE i = 1 -> "Model Configuration Errors:"
      [] i = 2 -> "Prompt Configuration Errors:"
      [] i = 3 -> "Response Configuration Errors:"
      [] i = 4 -> "Theme Configuration Errors:"

\* what section i's own validator says of the i-th argument of the call
SectionOutcome(i) ==
    CASE i = 1 -> validate_model_config(call.args[1], environ)
      [] i = 2 -> validate_prompt_config(call.args[2])
      [] i = 3 -> validate_response_config(call.args[3])
      [] i = 4 -> validate_theme_config(call.args[4])

ReportsInvalid(i) == SectionOutcome(i).exc = "None" /\ ~SectionOutcome(i).val[1]

ReportsValid(i) == SectionOutcome(i).exc = "None" /\ SectionOutcome(i).val[1]

\* C1: the message of the ConfigValidationError raised by validate_all_configs
\* holds, for every section its validator reports invalid, the section's header
\* line and one item line per error the validator returned, and holds no header
\* line for a section reported valid.
C1_MessageCollectsEverySection ==
    (call.op = "validate_all_configs" /\ call.exc = "ConfigValidationError") =>
        \A i \in 1..4 :
            /\ ReportsInvalid(i) =>
                 /\ InSeq(<<SectionHeader(i)>>, call.val)
                 /\ \A j \in 1..Len(SectionOutcome(i).val[2]) :
                        InSeq(<<"  - ">> \o SectionOutcome(i).val[2][j], call.val)
            /\ ReportsValid(i) => ~InSeq(<<SectionHeader(i)>>, call.val)

\* all four sections invalid, the model section with several errors
C1_Witness ==
    /\ call.op = "validate_all_configs"
    /\ call.exc = "ConfigValidationError"
    /\ \A i \in 1..4 : ReportsInvalid(i) /\ InSeq(<<SectionHeader(i)>>, call.val)
    /\ Len(SectionOutcome(1).val[2]) >= 2

\* C2 (as claimed): validate_all_configs raises ConfigValidationError exactly
\* when at least one section validator reports its section invalid, and returns
\* normally when all four report valid.
C2_RaisesExactlyWhenSomeSectionInvalid ==
    call.op = "validate_all_configs" =>
        /\ (call.exc = "ConfigValidationError") <=> (\E i \in 1..4 : ReportsInvalid(i))
        /\ (\A i \in 1..4 : ReportsValid(i)) => call.exc = "None"

HasPlaceholder(template, name) == Contains(template, <<"{">> \o name \o <<"}">>)

NotFoundMessage(name) == <<"Input variable '", name, "' not found in template string">>

\* the prompt configs C3 speaks of: a list of names and a template string
NamesAndTemplate(config) ==
    /\ "input_variables" \in DOMAIN config /\ IsList(config["input_variables"])
    /\ "template" \in DOMAIN config /\ IsStr(config["template"])

\* C3: when some name of input_variables has no {name} placeholder in the
\* template, validate_prompt_config returns not-valid; its errors name exactly
\* the names whose placeholder is missing.
C3_MissingPlaceholdersAreNamed ==
    (call.op = "validate_prompt_config" /\ NamesAndTemplate(call.args[1])) =>
        LET names == call.args[1]["input_variables"][2]
            template == call.args[1]["template"][2]
        IN /\ call.exc = "None"
           /\ \A i \in 1..Len(names) :
                 InSeq(NotFoundMessage(names[i][2]), call.val[2])
                     <=> ~HasPlaceholder(template, names[i][2])
           /\ (\E i \in 1..Len(names) : ~HasPlaceholder(template, names[i][2]))
                 => ~call.val[1]

\* two names, the first with its placeholder and the second without
C3_Witness ==
    /\ call.op = "validate_prompt_config"
    /\ NamesAndTemplate(call.args[1])
    /\ Len(call.args[1]["input_variables"][2]) = 2
    /\ HasPlaceholder(call.args[1]["template"][2], call.args[1]["input_variables"][2][1][2])
    /\ ~HasPlaceholder(call.args[1]["template"][2], call.args[1]["input_variables"][2][2][2])
    /\ ~call.val[1]

CredentialMessage == <<"OPENAI_API_KEY environment variable is required for OpenAI models">>

\* the model configs C4 speaks of
WellFormedOpenAI(config) ==
    /\ Get(config, "use_remote_model", None) = JBool(TRUE)
    /\ Get(config, "model_source", None) = JStr(OpenAI)
    /\ IsStr(Get(config, "model_name", None))
    /\ IsDict(Get(config, "model_parameters", None))

CredentialPresent == "OPENAI_API_KEY" \in DOMAIN environ /\ environ["OPENAI_API_KEY"] # <<>>

\* C4: a well-formed remote OpenAI model config is valid with no errors exactly
\* when OPENAI_API_KEY is set and non-empty; without it the result is invalid
\* and says the credential is required.
C4_OpenAIValidIffCredential ==
    (call.op = "validate_model_config" /\ WellFormedOpenAI(call.args[1])) =>
        /\ call.exc = "None"
        /\ (call.val[1] /\ call.val[2] = <<>>) <=> CredentialPresent
        /\ ~CredentialPresent => (~call.val[1] /\ InSeq(CredentialMessage, call.val[2]))

\* the key is set but empty, and the config is rejected
C4_Witness ==
    /\ call.op = "validate_model_config"
    /\ WellFormedOpenAI(call.args[1])
    /\ "OPENAI_API_KEY" \in DOMAIN environ
    /\ ~CredentialPresent
    /\ ~call.val[1]

RequiredFields == {"use_remote_model", "model_source", "model_name", "model_parameters"}

MissingMessage(field) ==
    CASE field = "use_remote_model" -> <<"Missing required field: 'use_remote_model'">>
      [] field = "model_source" -> <<"Missing required field: 'model_source'">>
      [] field = "model_name" -> <<"Missing required field: 'model_name'">>
      [] field = "model_parameters" -> <<"Missing required field: 'model_parameters'">>

\* C5: validate_model_config reports every absent required field, and every
\* present required field of the wrong type or unsupported model_source, each
\* with its own error.
C5_RequiredFieldsCheckedIndependently ==
    call.op = "validate_model_config" =>
        LET config == call.args[1]
            errors == call.val[2]
        IN /\ call.exc = "None"
           /\ \A f \in RequiredFields :
                 f \notin DOMAIN config => InSeq(MissingMessage(f), errors)
           /\ ("use_remote_model" \in DOMAIN config
                   /\ TypeOf(config["use_remote_model"]) # "bool")
                 => InSeq(<<"'use_remote_model' must be a boolean (true/false)">>, errors)
           /\ ("model_name" \in DOMAIN config /\ TypeOf(config["model_name"]) # "str")
                 => InSeq(<<"'model_name' must be a string">>, errors)
           /\ ("model_parameters" \in DOMAIN config
                   /\ TypeOf(config["model_parameters"]) # "dict")
                 => InSeq(<<"'model_parameters' must be a dictionary">>, errors)
           /\ ("model_source" \in DOMAIN config
                   /\ config["model_source"] \notin {JStr(OpenAI), JStr(Ollama)})
                 => \E i \in 1..Len(errors) : errors[i][1] = "Invalid 'model_source': '"

\* all four required fields absent, four errors reported
C5_Witness ==
    /\ call.op = "validate_model_config"
    /\ RequiredFields \cap DOMAIN call.args[1] = {}
    /\ \A f \in RequiredFields : InSeq(MissingMessage(f), call.val[2])

\* C6 (as claimed): a use_gpu that is not a JSON boolean, or a num_gpu that is
\* not a JSON integer, is reported whatever use_remote_model and model_source are.
C6_GpuFieldsCheckedEverywhere ==
    call.op = "validate_model_config" =>
        LET config == call.args[1]
        IN /\ ("use_gpu" \in DOMAIN config /\ TypeOf(config["use_gpu"]) # "bool")
                 => InSeq(<<"'use_gpu' must be a boolean if specified">>, call.val[2])
           /\ ("num_gpu" \in DOMAIN config /\ TypeOf(config["num_gpu"]) # "int")
                 => InSeq(<<"'num_gpu' must be an integer if specified">>, call.val[2])

\* the declared JSON type of each optional field
ResponseFieldTypes ==
    [speak_responses |-> {"bool"}, response_delay_time |-> {"int", "float"},
     response_stream_lag_time |-> {"int", "float"}, speech_rate_wpm |-> {"int", "float"},
     voice_name |-> {"str"}]

ThemeFieldTypes ==
    [app_name |-> {"str"}, source_theme |-> {"str"}, load_theme_from_hf_hub |-> {"bool"},
     font |-> {"list"}]

DeclaredTypesHold(config, declared) ==
    \A k \in DOMAIN config \cap DOMAIN declared : TypeOf(config[k]) \in declared[k]

\* C7 (as claimed): validate_response_config and validate_theme_config answer
\* valid with no errors exactly when every declared field that is present has
\* its declared JSON type, boolean and number being disjoint.
C7_ValidIffDeclaredJsonTypes ==
    call.op \in {"validate_response_config", "validate_theme_config"} =>
        LET declared == IF call.op = "validate_response_config"
                        THEN ResponseFieldTypes ELSE ThemeFieldTypes
        IN /\ call.exc = "None"
           /\ (call.val[1] /\ call.val[2] = <<>>)
                 <=> DeclaredTypesHold(call.args[1], declared)

(***************************************************************************)
(* Properties of load_config and AppConfig.                                *)
(***************************************************************************)
\* C8: a JSON-compatible mapping written with json.dump and read back by
\* load_config from the same path comes back equal to what was written.
C8_LoadConfigRoundTrips ==
    [][(call.op = "json.dump" /\ call'.op = "load_config"
            /\ call'.args[1] = call.args[2])
          => (call'.exc = "None" /\ call'.val = call.args[1])]_vars

\* a mapping three levels deep, holding a string with a quote, was read back
C8_Witness ==
    /\ call.op = "load_config"
    /\ call.exc = "None"
    /\ call.val \in JsonMappings
    /\ "model" \in DOMAIN call.val[2]
    /\ call.val[2]["model"] =
           JDict([parameters |-> JDict([name |-> JStr(<<"a", Quote, Backslash>>)])])

\* the file load_config was called on is there and readable
FileRead == call.args[1] \in DOMAIN fs /\ fs[call.args[1]].kind = "file"

ConfigPath == Get(environ, "CONFIG_PATH", DEFAULT_CONFIG_PATH)

MappingRead ==
    /\ ConfigPath \in DOMAIN fs
    /\ fs[ConfigPath].kind = "file"
    /\ json_load(fs[ConfigPath].text).exc = "None"
    /\ IsDict(json_load(fs[ConfigPath].text).val)

ConfigRead == json_load(fs[ConfigPath].text).val[2]

Validated == \E i \in 1..Len(call.steps) : call.steps[i][1] = "validate_all_configs"

\* the response and theme sections the constructor went on with: those of
\* the AppConfig it produced, else those it handed to validate_all_configs
SectionsUsed ==
    IF call.exc = "None"
    THEN [response |-> call.val.response_config, theme |-> call.val.theme_config]
    ELSE [response |-> call.steps[2][4], theme |-> call.steps[2][5]]

\* the constructor got as far as having the four sections in hand
SectionsTaken == call.exc = "None" \/ Validated

\* construction without model or prompt: exit status non-zero, nothing validated
ExitsBeforeValidation ==
    (call.op = "AppConfig" /\ MappingRead
        /\ ("model" \notin DOMAIN ConfigRead \/ "prompt" \notin DOMAIN ConfigRead))
      => /\ call.exc = "SystemExit"
         /\ call.val # JInt(0)
         /\ ~Validated

\* with model and prompt present the constructor does not exit for want of a
\* section: it exits only after validate_all_configs was called
GoesOnToValidation ==
    (call.op = "AppConfig" /\ MappingRead
        /\ "model" \in DOMAIN ConfigRead /\ "prompt" \in DOMAIN ConfigRead)
      => /\ call.exc = "SystemExit" => Validated
         /\ ~call.args[1] => call.exc # "SystemExit"

SectionsPresent ==
    /\ call.op = "AppConfig"
    /\ MappingRead
    /\ "model" \in DOMAIN ConfigRead
    /\ "prompt" \in DOMAIN ConfigRead

\* C10 (as claimed): without the model or the prompt section construction exits
\* non-zero before any validation; a missing response or theme section does not
\* end it and leaves that section an empty mapping.
C10_MissingSectionsAsClaimed ==
    /\ ExitsBeforeValidation
    /\ GoesOnToValidation
    /\ (SectionsPresent /\ SectionsTaken /\ "response" \notin DOMAIN ConfigRead)
          => SectionsUsed.response = JDict(EmptyDict)
    /\ (SectionsPresent /\ SectionsTaken /\ "theme" \notin DOMAIN ConfigRead)
          => SectionsUsed.theme = JDict(EmptyDict)

\* C10 (amended): as claimed, except that a missing theme section becomes the
\* mapping whose only entry is app_name, the top-level app_name of the file or
\* "LLM Voice Chat" when the file has none.
C10_MissingSections ==
    /\ ExitsBeforeValidation
    /\ GoesOnToValidation
    /\ (SectionsPresent /\ SectionsTaken /\ "response" \notin DOMAIN ConfigRead)
          => SectionsUsed.response = JDict(EmptyDict)
    /\ (SectionsPresent /\ SectionsTaken /\ "theme" \notin DOMAIN ConfigRead)
          => SectionsUsed.theme =
                 JDict([app_name |-> Get(ConfigRead, "app_name", DefaultAppName)])

\* neither response nor theme nor app_name in the file, and an AppConfig results
C10_Witness ==
    /\ SectionsPresent
    /\ DOMAIN ConfigRead = {"model", "prompt"}
    /\ call.args[1]
    /\ call.exc = "None"
    /\ call.val.response_config = JDict(EmptyDict)
    /\ call.val.theme_config = JDict([app_name |-> DefaultAppName])

\* the file AppConfig was pointed at holds a JSON document, of whatever value
JsonRead ==
    /\ ConfigPath \in DOMAIN fs
    /\ fs[ConfigPath].kind = "file"
    /\ json_load(fs[ConfigPath].text).exc = "None"

\* C11 (as claimed): on every file that parses as JSON, construction with
\* validation enabled either completes with an AppConfig whose four sections
\* pass their validators, or prints a diagnostic and exits with status 1; no
\* other exception escapes.
C11_ConstructionCompletesOrExits ==
    (call.op = "AppConfig" /\ call.args[1] /\ JsonRead) =>
        \/ /\ call.exc = "None"
           /\ validate_all_sections(call.val.model_config, call.val.prompt_config,
                                    call.val.response_config, call.val.theme_config,
                                    environ) = Return(None)
        \/ /\ call.exc = "SystemExit"
           /\ call.val = JInt(1)
           /\ Len(stdout) > 0

(***************************************************************************)
(* model_utils.load_model.  The clients and the pull are calls out of the  *)
(* program: an operation ends with the sequence of the calls it made.      *)
(***************************************************************************)
\* how an operation that calls out ends: Return or Raise, and the calls made
Did(outcome, steps) == [exc |-> outcome.exc, val |-> outcome.val, steps |-> steps]

\* f(model=..., **model_config["model_parameters"]): the lookups and the
\* unpacking that come before the constructor is entered; taken are the
\* keywords the call already passes by name
keyword_arguments(model_config, taken) ==
    IF "model_name" \notin DOMAIN model_config
    THEN Raise("KeyError", <<"model_name">>)
    ELSE IF "model_parameters" \notin DOMAIN model_config
    THEN Raise("KeyError", <<"model_parameters">>)
    ELSE IF ~IsDict(model_config["model_parameters"])
    THEN Raise("TypeError", <<"argument after ** must be a mapping">>)
    ELSE IF DOMAIN model_config["model_parameters"][2] \cap taken # {}
    THEN Raise("TypeError", <<"got multiple values for keyword argument">>)
    ELSE Return(model_config["model_parameters"][2])

\* lines 125-127
load_open_ai_model(model_config) ==
    LET kwargs == keyword_arguments(model_config, {"model"})
    IN IF kwargs.exc # "None" THEN Did(kwargs, <<>>)
       ELSE Did(Return([class |-> "ChatOpenAI", model |-> model_config["model_name"],
                        kwargs |-> kwargs.val]),
                <<<<"ChatOpenAI", model_config["model_name"], kwargs.val>>>>)

\* line 150: the shell command is run to its end, and its exit status is not
\* looked at
pull_ollama_model(model_config, exit_status) ==
    IF "model_name" \notin DOMAIN model_config
    THEN Did(Raise("KeyError", <<"model_name">>), <<>>)
    ELSE Did(Return(None),
             <<<<"subprocess.run",
                 <<"o", "l", "l", "a", "m", "a", " ", "p", "u", "l", "l", " ">>
                     \o PyStr(model_config["model_name"]),
                 exit_status>>>>)

\* mutant of gpu_count: num_gpu is used whatever use_gpu says
gpu_count_ignoring_use_gpu(model_config) == Get(model_config, "num_gpu", JInt(1))

\* lines 180-182
gpu_count(model_config) ==
    IF Truthy(Get(model_config, "use_gpu", JBool(FALSE)))
    THEN Get(model_config, "num_gpu", JInt(1))
    ELSE JInt(0)

\* lines 180-188
load_ollama_model(model_config) ==
    LET kwargs == keyword_arguments(model_config, {"model", "num_gpu"})
    IN IF kwargs.exc # "None" THEN Did(kwargs, <<>>)
       ELSE Did(Return([class |-> "OllamaLLM", model |-> model_config["model_name"],
                        num_gpu |-> gpu_count(model_config), kwargs |-> kwargs.val]),
                <<<<"OllamaLLM", model_config["model_name"], gpu_count(model_config),
                    kwargs.val>>>>)

\* mutant of load_model: the local client is constructed before the pull
load_model_pull_last(model_config, exit_status) ==
    IF Truthy(Get(model_config, "use_remote_model", JBool(FALSE)))
    THEN IF "model_source" \notin DOMAIN model_config
         THEN Did(Raise("KeyError", <<"model_source">>), <<>>)
         ELSE IF model_config["model_source"] = JStr(OpenAI)
         THEN load_open_ai_model(model_config)
         ELSE Did(Raise("ValueError", <<"Model configuration not yet supported.">>), <<>>)
    ELSE IF "model_source" \notin DOMAIN model_config
         THEN Did(Raise("KeyError", <<"model_source">>), <<>>)
         ELSE IF model_config["model_source"] = JStr(Ollama)
         THEN LET loaded == load_ollama_model(model_config)
                  pulled == pull_ollama_model(model_config, exit_status)
              IN IF loaded.exc # "None" THEN loaded
                 ELSE Did(loaded, loaded.steps \o pulled.steps)
         ELSE Did(Raise("ValueError", <<"Model configuration not yet supported.">>), <<>>)

\* lines 93-105.  `a and b` looks b up only when a is true, so which of the
\* two conditions first reads model_config["model_source"] depends on
\* use_remote_model.
load_model(model_config, exit_status) ==
    IF Truthy(Get(model_config, "use_remote_model", JBool(FALSE)))
    THEN IF "model_source" \notin DOMAIN model_config
         THEN Did(Raise("KeyError", <<"model_source">>), <<>>)
         ELSE IF model_config["model_source"] = JStr(OpenAI)
         THEN load_open_ai_model(model_config)
         ELSE Did(Raise("ValueError", <<"Model configuration not yet supported.">>), <<>>)
    ELSE IF "model_source" \notin DOMAIN model_config
         THEN Did(Raise("KeyError", <<"model_source">>), <<>>)
         ELSE IF model_config["model_source"] = JStr(Ollama)
         THEN LET pulled == pull_ollama_model(model_config, exit_status)
                  loaded == load_ollama_model(model_config)
              IN IF pulled.exc # "None" THEN pulled
                 ELSE Did(loaded, pulled.steps \o loaded.steps)
         ELSE Did(Raise("ValueError", <<"Model configuration not yet supported.">>), <<>>)

(***************************************************************************)
(* model_utils.get_llm_response.  A chat turn is a mapping with a role and *)
(* a content; a message object is its class and its content.               *)
(***************************************************************************)
\* how a client's call ends: it raises, or it returns the text the model
\* answers with as the object its library makes of it
answered(reply, answer) == IF reply.exc # "None" THEN reply ELSE Return(answer)

\* HumanMessage(content=...) and AIMessage(content=...)
HumanMessage(content) == [class |-> "HumanMessage", content |-> content]

AIMessage(content) == [class |-> "AIMessage", content |-> content]

User == <<"u", "s", "e", "r">>

RECURSIVE format_from(_, _, _)
\* str.format over the characters still to read: "{{" and "}}" are the two
\* braces, {question} is replaced by the keyword argument, and any other
\* field is a KeyError
format_from(template, question, done) ==
    IF Len(template) = 0 THEN Return(done)
    ELSE IF Len(template) >= 2 /\ SubSeq(template, 1, 2) \in {<<"{", "{">>, <<"}", "}">>}
    THEN format_from(SubSeq(template, 3, Len(template)), question,
                     Append(done, template[1]))
    ELSE IF template[1] = "}"
    THEN Raise("ValueError", <<"Single '}' encountered in format string">>)
    ELSE IF template[1] = "{"
    THEN LET closing == { i \in 2..Len(template) : template[i] = "}" }
             close == CHOOSE i \in closing : \A j \in closing : i <= j
         IN IF closing = {}
            THEN Raise("ValueError", <<"expected '}' before end of string">>)
            ELSE IF SubSeq(template, 2, close - 1) = <<"q", "u", "e", "s", "t", "i", "o", "n">>
            THEN format_from(SubSeq(template, close + 1, Len(template)), question,
                             done \o question)
            ELSE Raise("KeyError", SubSeq(template, 2, close - 1))
    ELSE format_from(Tail(template), question, Append(done, template[1]))

\* system_prompt_template.format(question=message)
format(system_prompt_template, question) == format_from(system_prompt_template, question, <<>>)

\* mutant of history_is_sent: send_chat_history is not looked at
history_is_sent_whatever_the_flag(send_chat_history, history) ==
    history # None /\ Len(history[2]) > 0

\* `send_chat_history and history is not None and len(history) > 0`
history_is_sent(send_chat_history, history) ==
    Truthy(send_chat_history) /\ history # None /\ Len(history[2]) > 0

RECURSIVE history_messages(_, _)
\* lines 305-311: the turns still to visit, and the message objects made so far
history_messages(turns, message_history_list) ==
    IF Len(turns) = 0 THEN Return(message_history_list)
    ELSE IF "role" \notin DOMAIN Head(turns)[2] THEN Raise("KeyError", <<"role">>)
    ELSE IF "content" \notin DOMAIN Head(turns)[2] THEN Raise("KeyError", <<"content">>)
    ELSE history_messages(
            Tail(turns),
            Append(message_history_list,
                   IF Head(turns)[2]["role"] = JStr(User)
                   THEN HumanMessage(Head(turns)[2]["content"])
                   ELSE AIMessage(Head(turns)[2]["content"])))

\* mutant of get_open_ai_response: the history is sent after the current message
get_open_ai_response_history_last(message, message_history, reply, system_prompt_template, send_chat_history) ==
    LET entered == <<<<"_get_open_ai_response", send_chat_history>>>>
        prompt_text == format(system_prompt_template, message)
        listed == IF history_is_sent(send_chat_history, message_history)
                  THEN history_messages(message_history[2], <<>>)
                  ELSE Return(<<>>)
    IN IF prompt_text.exc # "None" THEN Did(prompt_text, entered)
       ELSE IF listed.exc # "None" THEN Did(listed, entered)
       ELSE Did(IF reply.exc # "None" THEN reply ELSE Return(reply.val.content),
                entered \o <<<<"llm.invoke",
                               <<HumanMessage(JStr(prompt_text.val))>> \o listed.val,
                               reply>>>>)

\* lines 297-315; reply is how llm.invoke ends, Return(the message) or
\* Raise(...), and nothing around the call catches.  A step is the call, what
\* it was given and what it answered.
get_open_ai_response(message, message_history, reply, system_prompt_template, send_chat_history) ==
    LET entered == <<<<"_get_open_ai_response", send_chat_history>>>>
        prompt_text == format(system_prompt_template, message)
        listed == IF history_is_sent(send_chat_history, message_history)
                  THEN history_messages(message_history[2], <<>>)
                  ELSE Return(<<>>)
    IN IF prompt_text.exc # "None" THEN Did(prompt_text, entered)
       ELSE IF listed.exc # "None" THEN Did(listed, entered)
       ELSE Did(IF reply.exc # "None" THEN reply ELSE Return(reply.val.content),
                entered \o <<<<"llm.invoke",
                               Append(listed.val, HumanMessage(JStr(prompt_text.val))),
                               reply>>>>)

RECURSIVE conversation_parts(_, _)
\* lines 357-362: the turns still to visit, and the parts made so far
conversation_parts(turns, parts) ==
    IF Len(turns) = 0 THEN Return(parts)
    ELSE IF "role" \notin DOMAIN Head(turns)[2] THEN Raise("KeyError", <<"role">>)
    ELSE IF "content" \notin DOMAIN Head(turns)[2] THEN Raise("KeyError", <<"content">>)
    ELSE conversation_parts(
            Tail(turns),
            Append(parts,
                   (IF Head(turns)[2]["role"] = JStr(User)
                    THEN <<"U", "s", "e", "r">>
                    ELSE <<"A", "s", "s", "i", "s", "t", "a", "n", "t">>)
                   \o <<":", " ">> \o PyStr(Head(turns)[2]["content"])))

RECURSIVE join(_, _)
\* separator.join(parts)
join(separator, parts) ==
    IF Len(parts) = 0 THEN <<>>
    ELSE IF Len(parts) = 1 THEN parts[1]
    ELSE parts[1] \o separator \o join(separator, Tail(parts))

ConversationHeader ==
    <<"P", "r", "e", "v", "i", "o", "u", "s", " ", "c", "o", "n", "v", "e", "r", "s", "a", "t", "i", "o", "n", ":", "\n">>

\* lines 351-366
conversation_context(history, send_chat_history) ==
    IF history_is_sent(send_chat_history, history)
    THEN LET parts == conversation_parts(history[2], <<>>)
         IN IF parts.exc # "None" THEN parts
            ELSE Return(ConversationHeader \o join(<<"\n">>, parts.val) \o <<"\n", "\n">>)
    ELSE Return(<<>>)

\* mutant of get_ollama_response: the history goes after the current message
get_ollama_response_history_last(message, history, reply, send_chat_history) ==
    LET entered == <<<<"_get_ollama_response", send_chat_history>>>>
        context == conversation_context(history, send_chat_history)
    IN IF context.exc # "None" THEN Did(context, entered)
       ELSE Did(IF reply.exc # "None" THEN reply ELSE Return(reply.val),
                entered \o <<<<"chain.invoke", message \o context.val, reply>>>>)

\* lines 350-372; reply is how chain.invoke ends: Return(the text) or Raise(...)
get_ollama_response(message, history, reply, send_chat_history) ==
    LET entered == <<<<"_get_ollama_response", send_chat_history>>>>
        context == conversation_context(history, send_chat_history)
    IN IF context.exc # "None" THEN Did(context, entered)
       ELSE Did(IF reply.exc # "None" THEN reply ELSE Return(reply.val),
                entered \o <<<<"chain.invoke", context.val \o message, reply>>>>)

\* mutant of get_llm_response: use_remote_model defaults to True, as it does
\* in validate_model_config
get_llm_response_remote_by_default(message, history, model_config, reply, system_prompt_template) ==
    IF "model_source" \notin DOMAIN model_config
    THEN Did(Raise("KeyError", <<"model_source">>), <<>>)
    ELSE IF Truthy(Get(model_config, "use_remote_model", JBool(TRUE)))
            /\ model_config["model_source"] = JStr(OpenAI)
    THEN get_open_ai_response(message, history, answered(reply, AIMessage(JStr(reply.val))),
                              system_prompt_template,
                              Get(model_config, "send_chat_history", JBool(TRUE)))
    ELSE IF ~Truthy(Get(model_config, "use_remote_model", JBool(TRUE)))
            /\ model_config["model_source"] = JStr(Ollama)
    THEN get_ollama_response(message, history, answered(reply, JStr(reply.val)),
                             Get(model_config, "send_chat_history", JBool(TRUE)))
    ELSE Did(Raise("ValueError", <<"Model configuration not yet supported.">>), <<>>)

\* mutant of get_llm_response: a call of the client that raises is made again
get_llm_response_retrying(message, history, model_config, reply, system_prompt_template) ==
    LET attempt ==
            IF "model_source" \notin DOMAIN model_config
            THEN Did(Raise("KeyError", <<"model_source">>), <<>>)
            ELSE IF Truthy(Get(model_config, "use_remote_model", JBool(FALSE)))
                    /\ model_config["model_source"] = JStr(OpenAI)
            THEN get_open_ai_response(message, history,
                                      answered(reply, AIMessage(JStr(reply.val))),
                                      system_prompt_template,
                                      Get(model_config, "send_chat_history", JBool(TRUE)))
            ELSE IF ~Truthy(Get(model_config, "use_remote_model", JBool(FALSE)))
                    /\ model_config["model_source"] = JStr(Ollama)
            THEN get_ollama_response(message, history, answered(reply, JStr(reply.val)),
                                     Get(model_config, "send_chat_history", JBool(TRUE)))
            ELSE Did(Raise("ValueError", <<"Model configuration not yet supported.">>), <<>>)
    IN IF attempt.exc = "ConnectionError"
       THEN Did(attempt, attempt.steps \o attempt.steps)
       ELSE attempt

\* lines 239-262; reply is how the client's call ends: Return(the text the
\* model answers with) or Raise(what the client raises)
get_llm_response(message, history, model_config, reply, system_prompt_template) ==
    IF "model_source" \notin DOMAIN model_config
    THEN Did(Raise("KeyError", <<"model_source">>), <<>>)
    ELSE IF Truthy(Get(model_config, "use_remote_model", JBool(FALSE)))
            /\ model_config["model_source"] = JStr(OpenAI)
    THEN get_open_ai_response(message, history, answered(reply, AIMessage(JStr(reply.val))),
                              system_prompt_template,
                              Get(model_config, "send_chat_history", JBool(TRUE)))
    ELSE IF ~Truthy(Get(model_config, "use_remote_model", JBool(FALSE)))
            /\ model_config["model_source"] = JStr(Ollama)
    THEN get_ollama_response(message, history, answered(reply, JStr(reply.val)),
                             Get(model_config, "send_chat_history", JBool(TRUE)))
    ELSE Did(Raise("ValueError", <<"Model configuration not yet supported.">>), <<>>)

\* the model configs load_model is called with
LoadModelConfigs ==
    { MkConfig([use_remote_model |-> a, model_source |-> b, model_name |-> c,
                model_parameters |-> d, use_gpu |-> e, num_gpu |-> f]) :
        a \in {Absent, JBool(TRUE), JBool(FALSE), JStr(<<"y", "e", "s">>)},
        b \in {Absent, JStr(OpenAI), JStr(Ollama), JStr(<<"X">>)},
        c \in {Absent, JStr(SomeName)},
        d \in {Absent, JDict(EmptyDict), JDict([temperature |-> JInt(1)]),
               JDict([num_gpu |-> JInt(2)])},
        e \in {Absent, JBool(TRUE), JBool(FALSE)},
        f \in {Absent, JInt(2), JInt(0)} }

\* the model configs get_llm_response is called with: loadable, with the
\* three fields the dispatch reads given, absent or of another type
ChatModelConfigs ==
    { MkConfig([use_remote_model |-> a, model_source |-> b, send_chat_history |-> c,
                model_name |-> JStr(SomeName), model_parameters |-> JDict(EmptyDict)]) :
        a \in {Absent, JBool(TRUE), JBool(FALSE), JStr(<<"y", "e", "s">>), JInt(0)},
        b \in {Absent, JStr(OpenAI), JStr(Ollama), JStr(<<"X">>)},
        c \in {Absent, JBool(TRUE), JBool(FALSE)} }

MaxHistory == 2

Assistant == <<"a", "s", "s", "i", "s", "t", "a", "n", "t">>

Turns ==
    { JDict([role |-> JStr(r), content |-> JStr(c)]) :
        r \in {User, Assistant}, c \in {<<"h", "i">>, <<"h", "e", "l", "l", "o">>} }

\* no history, histories of up to MaxHistory turns, a turn of another role
\* and a turn without a role
Histories ==
    {None}
    \cup { JList(h) : h \in SeqsUpTo(Turns, MaxHistory) }
    \cup {JList(<<JDict([role |-> JStr(<<"s", "y", "s">>), content |-> JStr(<<"h", "i">>)])>>),
          JList(<<JDict([content |-> JStr(<<"h", "i">>)])>>)}

Messages == {<<"n", "e", "w">>, <<"?">>}

\* prompt templates: the question alone, the question after a text, and a
\* template with a variable that format is not given
Templates ==
    {<<"{", "q", "u", "e", "s", "t", "i", "o", "n", "}">>,
     <<"Q", ":", " ", "{", "q", "u", "e", "s", "t", "i", "o", "n", "}">>,
     <<"{", "a", "}", "{", "q", "u", "e", "s", "t", "i", "o", "n", "}">>}

Replies == {<<"o", "k">>, <<"n", "o">>}

\* what a client raises when the backend cannot be reached
BackendErrors == {Raise("ConnectionError", <<"Connection error.">>)}

ClientReplies == { Return(text) : text \in Replies } \cup BackendErrors

\* exit statuses of `ollama pull`
ExitStatuses == {0, 1}

\* the record of a call that called out
CalledOut(op, args, did) ==
    [op |-> op, args |-> args, exc |-> did.exc, val |-> did.val, steps |-> did.steps]

InitChat ==
    /\ environ = NoEnv
    /\ fs = NoFiles
    /\ call = NoCall
    /\ stdout = <<>>
    /\ speech_engine = NoEngine
    /\ AppNotStarted

\* llm = load_model(model_config)
CallLoadModel ==
    /\ call = NoCall
    /\ \E model_config \in LoadModelConfigs, exit_status \in ExitStatuses :
         call' = CalledOut("load_model", <<model_config>>,
                           load_model(model_config, exit_status))
    /\ UNCHANGED <<environ, fs, stdout, speech_engine, app_vars>>

\* response = get_llm_response(message, history, model_config, llm, template)
CallGetLlmResponse ==
    /\ call = NoCall
    /\ \E message \in Messages, history \in Histories, model_config \in ChatModelConfigs,
          reply \in ClientReplies, system_prompt_template \in Templates :
         call' = CalledOut("get_llm_response",
                           <<message, history, model_config, system_prompt_template>>,
                           get_llm_response(message, history, model_config, reply,
                                            system_prompt_template))
    /\ UNCHANGED <<environ, fs, stdout, speech_engine, app_vars>>

(***************************************************************************)
(* Properties of load_model.                                               *)
(***************************************************************************)
StepsNamed(name) == { i \in 1..Len(call.steps) : call.steps[i][1] = name }

Unsupported == Raise("ValueError", <<"Model configuration not yet supported.">>)

\* model_name is there and model_parameters is a mapping the constructor takes
ClientArgumentsGiven(model_config, taken) ==
    /\ "model_name" \in DOMAIN model_config
    /\ "model_parameters" \in DOMAIN model_config
    /\ IsDict(model_config["model_parameters"])
    /\ DOMAIN model_config["model_parameters"][2] \cap taken = {}

PullCommand(model_config) ==
    <<"o", "l", "l", "a", "m", "a", " ", "p", "u", "l", "l", " ">>
        \o model_config["model_name"][2]

\* C12: load_model on a config with a model_source and a use_remote_model that
\* is true, false or absent.  (true, OpenAI): no pull, and the remote client is
\* made from model_name and model_parameters.  (false or absent, Ollama): the
\* pull for model_name is run to its end first, and only then is the local
\* client made.  Every other pair: the unsupported-configuration error, with
\* no client made and no pull run.
C12_LoadModelDispatch ==
    (call.op = "load_model" /\ "model_source" \in DOMAIN call.args[1]
        /\ Get(call.args[1], "use_remote_model", JBool(FALSE)) \in {JBool(TRUE), JBool(FALSE)})
      => LET model_config == call.args[1]
             remote == Get(model_config, "use_remote_model", JBool(FALSE)) = JBool(TRUE)
             source == model_config["model_source"]
         IN CASE remote /\ source = JStr(OpenAI) ->
                   /\ StepsNamed("subprocess.run") = {}
                   /\ StepsNamed("OllamaLLM") = {}
                   /\ call.exc # "ValueError"
                   /\ ClientArgumentsGiven(model_config, {"model"}) =>
                         /\ call.exc = "None"
                         /\ call.val.class = "ChatOpenAI"
                         /\ call.steps = <<<<"ChatOpenAI", model_config["model_name"],
                                             model_config["model_parameters"][2]>>>>
              [] ~remote /\ source = JStr(Ollama) ->
                   /\ StepsNamed("ChatOpenAI") = {}
                   /\ call.exc # "ValueError"
                   /\ \A i \in StepsNamed("OllamaLLM") :
                         \E j \in StepsNamed("subprocess.run") : j < i
                   /\ ClientArgumentsGiven(model_config, {"model", "num_gpu"}) =>
                         /\ call.exc = "None"
                         /\ call.val.class = "OllamaLLM"
                         /\ Len(call.steps) = 2
                         /\ call.steps[1][1] = "subprocess.run"
                         /\ call.steps[1][2] = PullCommand(model_config)
                         /\ call.steps[2][1] = "OllamaLLM"
                         /\ call.steps[2][2] = model_config["model_name"]
                         /\ call.steps[2][4] = model_config["model_parameters"][2]
              [] OTHER ->
                   /\ [exc |-> call.exc, val |-> call.val] = Unsupported
                   /\ call.steps = <<>>

\* a local client was made after a pull that failed
C12_Witness ==
    /\ call.op = "load_model"
    /\ "use_remote_model" \notin DOMAIN call.args[1]
    /\ call.exc = "None"
    /\ call.val.class = "OllamaLLM"
    /\ call.steps[1][1] = "subprocess.run"
    /\ call.steps[1][3] = 1
    /\ call.steps[2][1] = "OllamaLLM"

\* the GPU count the local client was constructed with
LocalClientMade == call.op = "load_model" /\ StepsNamed("OllamaLLM") # {}

\* C16: the GPU count passed to the local client is num_gpu when use_gpu is
\* true and num_gpu is given, 1 when use_gpu is true and num_gpu is absent, and
\* 0 when use_gpu is false or absent, whatever num_gpu is.
C16_GpuCount ==
    LocalClientMade =>
        LET model_config == call.args[1]
            use_gpu == Get(model_config, "use_gpu", JBool(FALSE)) = JBool(TRUE)
        IN \A i \in StepsNamed("OllamaLLM") :
              /\ (use_gpu /\ "num_gpu" \in DOMAIN model_config)
                    => call.steps[i][3] = model_config["num_gpu"]
              /\ (use_gpu /\ "num_gpu" \notin DOMAIN model_config)
                    => call.steps[i][3] = JInt(1)
              /\ ~use_gpu => call.steps[i][3] = JInt(0)

\* use_gpu is absent, num_gpu is given, and the client was made with no GPU
C16_Witness ==
    /\ LocalClientMade
    /\ "use_gpu" \notin DOMAIN call.args[1]
    /\ "num_gpu" \in DOMAIN call.args[1]
    /\ call.args[1]["num_gpu"] = JInt(2)
    /\ call.val.num_gpu = JInt(0)

(***************************************************************************)
(* Properties of get_llm_response.                                         *)
(***************************************************************************)
\* what load_model does on the config get_llm_response was called with
LoaderMakes(class, exit_status) ==
    \E i \in 1..Len(load_model(call.args[3], exit_status).steps) :
        load_model(call.args[3], exit_status).steps[i][1] = class

LoaderRaisesUnsupported(exit_status) ==
    load_model(call.args[3], exit_status) = Did(Unsupported, <<>>)

\* C13: on every model config, get_llm_response takes the remote branch
\* exactly when load_model makes the remote client, the local branch exactly
\* when load_model makes the local client, and raises the
\* unsupported-configuration error exactly when load_model raises it.
C13_DispatchMirrorsLoader ==
    call.op = "get_llm_response" =>
        \A exit_status \in ExitStatuses :
            /\ StepsNamed("_get_open_ai_response") # {} <=> LoaderMakes("ChatOpenAI", exit_status)
            /\ StepsNamed("_get_ollama_response") # {} <=> LoaderMakes("OllamaLLM", exit_status)
            /\ [exc |-> call.exc, val |-> call.val] = Unsupported
                  <=> LoaderRaisesUnsupported(exit_status)

\* use_remote_model is absent, and the local branch was taken
C13_Witness ==
    /\ call.op = "get_llm_response"
    /\ "use_remote_model" \notin DOMAIN call.args[3]
    /\ StepsNamed("_get_ollama_response") # {}
    /\ LoaderMakes("OllamaLLM", 0)

\* the call made one call of the client and ended as that call ended: with
\* its answer, or with what it raised
EndsAsTheClient ==
    /\ Len(call.steps) = 2
    /\ call.exc = call.steps[2][3].exc
    /\ call.exc # "None" => call.val = call.steps[2][3].val

\* the history reaches the model: send_chat_history is true or absent, and
\* the history has turns, each with a role and a content
HistoryEnabled ==
    /\ call.op = "get_llm_response"
    /\ Get(call.args[3], "send_chat_history", JBool(TRUE)) = JBool(TRUE)
    /\ call.args[2] # None
    /\ Len(call.args[2][2]) > 0
    /\ \A i \in 1..Len(call.args[2][2]) :
          {"role", "content"} \subseteq DOMAIN call.args[2][2][i][2]

\* one turn as the claim renders it
RenderedTurn(turn) ==
    (IF turn[2]["role"] = JStr(User) THEN <<"U", "s", "e", "r", ":", " ">>
     ELSE <<"A", "s", "s", "i", "s", "t", "a", "n", "t", ":", " ">>) \o turn[2]["content"][2]

RECURSIVE RenderedTurns(_)
\* the first n turns, each on its own line, a single newline between two
RenderedTurns(n) ==
    IF n = 0 THEN <<>>
    ELSE RenderedTurns(n - 1) \o (IF n > 1 THEN <<"\n">> ELSE <<>>)
             \o RenderedTurn(call.args[2][2][n])

\* C14: in the local branch with the history enabled and not empty, the string
\* handed to the pipeline is 'Previous conversation:\n', the turns in their
\* order as 'User: <content>' or 'Assistant: <content>' joined by single
\* newlines, '\n\n', and the raw current message.
C14_LocalBranchString ==
    (HistoryEnabled /\ StepsNamed("_get_ollama_response") # {})
      => /\ EndsAsTheClient
         /\ Len(call.steps) = 2
         /\ call.steps[2][1] = "chain.invoke"
         /\ call.steps[2][2] =
               (<<"P", "r", "e", "v", "i", "o", "u", "s", " ", "c", "o", "n", "v", "e", "r", "s", "a", "t", "i", "o", "n", ":", "\n">>
                     \o RenderedTurns(Len(call.args[2][2])) \o <<"\n", "\n">> \o call.args[1])

\* history [user 'hi', assistant 'hello'] and the message 'new'
C14_Witness ==
    /\ call.op = "get_llm_response"
    /\ call.args[1] = <<"n", "e", "w">>
    /\ call.args[2] = JList(<<JDict([role |-> JStr(User), content |-> JStr(<<"h", "i">>)]),
                              JDict([role |-> JStr(Assistant),
                                     content |-> JStr(<<"h", "e", "l", "l", "o">>)])>>)
    /\ Len(call.steps) = 2
    /\ call.steps[2][1] = "chain.invoke"
    /\ call.steps[2][2] =
          <<"P", "r", "e", "v", "i", "o", "u", "s", " ", "c", "o", "n", "v", "e", "r", "s", "a", "t", "i", "o", "n", ":", "\n", "U", "s", "e", "r", ":", " ", "h", "i", "\n", "A", "s", "s", "i", "s", "t", "a", "n", "t", ":", " ", "h", "e", "l", "l", "o", "\n", "\n", "n", "e", "w">>

\* the current message as the template formats it
FormattedMessage ==
    CASE call.args[4] = <<"{", "q", "u", "e", "s", "t", "i", "o", "n", "}">> -> call.args[1]
      [] call.args[4] = <<"Q", ":", " ", "{", "q", "u", "e", "s", "t", "i", "o", "n", "}">> ->
           <<"Q", ":", " ">> \o call.args[1]

TemplateFormats == call.args[4] # <<"{", "a", "}", "{", "q", "u", "e", "s", "t", "i", "o", "n", "}">>

\* C17: in the remote branch with the history enabled and n > 0 turns, the
\* client is invoked with n+1 messages: the i-th holds the content of the
\* i-th turn, human for a user turn and AI for an assistant turn, the last is
\* a human message holding the formatted current message; what is returned is
\* the content field of the client's reply.
C17_RemoteBranchMessages ==
    (HistoryEnabled /\ StepsNamed("_get_open_ai_response") # {} /\ TemplateFormats)
      => LET turns == call.args[2][2]
         IN /\ EndsAsTheClient
            /\ Len(call.steps) = 2
            /\ call.steps[2][1] = "llm.invoke"
            /\ Len(call.steps[2][2]) = Len(turns) + 1
            /\ \A i \in 1..Len(turns) :
                  /\ call.steps[2][2][i].content = turns[i][2]["content"]
                  /\ turns[i][2]["role"] = JStr(User)
                        => call.steps[2][2][i].class = "HumanMessage"
                  /\ turns[i][2]["role"] = JStr(Assistant)
                        => call.steps[2][2][i].class = "AIMessage"
            /\ call.steps[2][2][Len(turns) + 1] = HumanMessage(JStr(FormattedMessage))
            /\ call.exc = "None" => call.val = call.steps[2][3].val.content

\* two turns, an assistant turn before a user turn, and three messages sent
C17_Witness ==
    /\ HistoryEnabled
    /\ StepsNamed("llm.invoke") # {}
    /\ Len(call.args[2][2]) = 2
    /\ call.args[2][2][1][2]["role"] = JStr(Assistant)
    /\ call.args[2][2][2][2]["role"] = JStr(User)
    /\ call.args[2][2][1][2]["content"] # call.args[2][2][2][2]["content"]
    /\ Len(call.steps[2][2]) = 3
    /\ call.args[4] = <<"Q", ":", " ", "{", "q", "u", "e", "s", "t", "i", "o", "n", "}">>

\* no history is to reach the model
HistoryWithheld ==
    /\ call.op = "get_llm_response"
    /\ \/ Get(call.args[3], "send_chat_history", JBool(TRUE)) = JBool(FALSE)
       \/ call.args[2] = None
       \/ Len(call.args[2][2]) = 0

\* C18: when send_chat_history is false, or the history is None or empty, the
\* remote branch invokes the client with the formatted current message alone
\* and the local branch invokes the pipeline with the raw current message
\* alone; send_chat_history is true when the model config does not have it.
C18_NoHistoryWhenDisabled ==
    /\ (HistoryWithheld /\ StepsNamed("_get_open_ai_response") # {} /\ TemplateFormats)
          => /\ EndsAsTheClient
             /\ call.steps[2][1] = "llm.invoke"
             /\ call.steps[2][2] = <<HumanMessage(JStr(FormattedMessage))>>
    /\ (HistoryWithheld /\ StepsNamed("_get_ollama_response") # {})
          => /\ EndsAsTheClient
             /\ call.steps[2][1] = "chain.invoke"
             /\ call.steps[2][2] = call.args[1]
    /\ (call.op = "get_llm_response" /\ "send_chat_history" \notin DOMAIN call.args[3]
            /\ Len(call.steps) > 0)
          => call.steps[1][2] = JBool(TRUE)

\* send_chat_history is false, the history has two turns, one message is sent
C18_Witness ==
    /\ call.op = "get_llm_response"
    /\ Get(call.args[3], "send_chat_history", JBool(TRUE)) = JBool(FALSE)
    /\ call.args[2] # None
    /\ Len(call.args[2][2]) = 2
    /\ StepsNamed("llm.invoke") # {}
    /\ Len(call.steps[2][2]) = 1

NextChat ==
    \/ CallLoadModel
    \/ CallGetLlmResponse

SpecChat == InitChat /\ [][NextChat]_vars

(***************************************************************************)
(* text_to_speech.  The pyttsx3 engine is the record of the voices the     *)
(* host has, its voice and rate properties, its _inLoop flag and the       *)
(* utterances queued.                                                      *)
(***************************************************************************)
DEFAULT_SPEECH_RATE_WPM == 180

DEFAULT_WINDOWS_VOICE ==
    <<"M", "i", "c", "r", "o", "s", "o", "f", "t", " ", "D", "a", "v", "i",
      "d", " ", "D", "e", "s", "k", "t", "o", "p", " ", "-", " ", "E", "n",
      "g", "l", "i", "s", "h", " ", "(", "U", "n", "i", "t", "e", "d", " ",
      "S", "t", "a", "t", "e", "s", ")">>

DEFAULT_MAC_OS_VOICE == <<"S", "a", "m", "a", "n", "t", "h", "a">>

UpperCase == <<"A", "B", "C", "D", "E", "F", "G", "H", "I", "J", "K", "L", "M">>
                 \o <<"N", "O", "P", "Q", "R", "S", "T", "U", "V", "W", "X", "Y", "Z">>

LowerCase == <<"a", "b", "c", "d", "e", "f", "g", "h", "i", "j", "k", "l", "m">>
                 \o <<"n", "o", "p", "q", "r", "s", "t", "u", "v", "w", "x", "y", "z">>

\* str.lower()
lower(chars) ==
    [i \in 1..Len(chars) |->
        IF \E k \in 1..Len(UpperCase) : UpperCase[k] = chars[i]
        THEN LowerCase[CHOOSE k \in 1..Len(UpperCase) : UpperCase[k] = chars[i]]
        ELSE chars[i]]

\* line 106; platform is what platform.platform() answers
running_on_mac_os(platform) == Contains(lower(platform), <<"m", "a", "c">>)

\* line 117
running_on_windows(platform) == Contains(lower(platform), <<"w", "i", "n", "d", "o", "w", "s">>)

RECURSIVE get_voice_id(_, _)
\* lines 141-145: the id of the first voice of that name, else None
get_voice_id(voices, voice_name) ==
    IF Len(voices) = 0 THEN None
    ELSE IF JStr(Head(voices).name) = voice_name THEN JStr(Head(voices).id)
    ELSE get_voice_id(Tail(voices), voice_name)

Unset == <<"unset">>

\* pyttsx3.init() on a host with these voices
pyttsx3_init(voices) ==
    [voices |-> voices, voice |-> Unset, rate |-> Unset, inLoop |-> FALSE, queue |-> <<>>]

\* mutant of default_voice_name: the platform default overrides voice_name
default_voice_name_forced(speech_config, platform) ==
    IF running_on_windows(platform) THEN JStr(DEFAULT_WINDOWS_VOICE)
    ELSE IF running_on_mac_os(platform) THEN JStr(DEFAULT_MAC_OS_VOICE)
    ELSE Get(speech_config, "voice_name", None)

\* lines 71-79
default_voice_name(speech_config, platform) ==
    IF running_on_windows(platform)
    THEN Get(speech_config, "voice_name", JStr(DEFAULT_WINDOWS_VOICE))
    ELSE IF running_on_mac_os(platform)
    THEN Get(speech_config, "voice_name", JStr(DEFAULT_MAC_OS_VOICE))
    ELSE Get(speech_config, "voice_name", None)

\* lines 71-95: the config is handed back as it came
initialize_text_to_speech(speech_config, platform, voices) ==
    LET voice_name == default_voice_name(speech_config, platform)
        voice_id == get_voice_id(voices, voice_name)
        rate == Get(speech_config, "speech_rate_wpm", JInt(DEFAULT_SPEECH_RATE_WPM))
        created == pyttsx3_init(voices)
        voiced == IF voice_name # None THEN [created EXCEPT !.voice = voice_id]
                  ELSE created
    IN Did(Return([speech_config |-> speech_config,
                   speech_engine |-> [voiced EXCEPT !.rate = rate]]),
           <<<<"pyttsx3.init">>>>
               \o (IF voice_name # None
                   THEN <<<<"get_voice_id", voice_name>>,
                          <<"setProperty", "voice", voice_id>>>>
                   ELSE <<>>)
               \o <<<<"setProperty", "rate", rate>>>>)

\* mutant of speak_message: the engine is not asked whether it is in a loop
speak_message_unguarded(message, engine, loop_left_open) ==
    IF engine.inLoop
    THEN [exc |-> "RuntimeError", val |-> <<"run loop already started">>,
          steps |-> <<<<"say", message>>, <<"runAndWait", TRUE>>>>,
          speech_engine |-> [engine EXCEPT !.queue = Append(@, message)]]
    ELSE [exc |-> "None", val |-> None,
          steps |-> <<<<"say", message>>, <<"runAndWait", FALSE>>>>,
          speech_engine |-> [engine EXCEPT !.inLoop = loop_left_open, !.queue = <<>>]]

\* lines 176-180.  endLoop clears _inLoop; say queues the text; runAndWait
\* raises RuntimeError when _inLoop is set, else sets it, speaks what is
\* queued, and on its way out the engine either clears the flag or, by the
\* defect the code works around, leaves it set (loop_left_open).  A
\* runAndWait step carries the flag as runAndWait found it.
speak_message(message, engine, loop_left_open) ==
    LET ended == IF engine.inLoop THEN [engine EXCEPT !.inLoop = FALSE] ELSE engine
        queued == [ended EXCEPT !.queue = Append(@, message)]
        before == (IF engine.inLoop THEN <<<<"endLoop">>>> ELSE <<>>)
                      \o <<<<"say", message>>, <<"runAndWait", queued.inLoop>>>>
    IN IF queued.inLoop
       THEN [exc |-> "RuntimeError", val |-> <<"run loop already started">>,
             steps |-> before, speech_engine |-> queued]
       ELSE [exc |-> "None", val |-> None, steps |-> before,
             speech_engine |-> [queued EXCEPT !.inLoop = loop_left_open, !.queue = <<>>]]

\* what platform.platform() answers on Windows, on macOS and on Linux
Platforms ==
    {<<"W", "i", "n", "d", "o", "w", "s", "-", "1", "0">>,
     <<"m", "a", "c", "O", "S", "-", "1", "4", "-", "a", "r", "m", "6", "4">>,
     <<"L", "i", "n", "u", "x", "-", "6", "-", "x", "8", "6", "_", "6", "4">>}

\* the voices a host has: none, the two platform defaults, or another one
VoiceLists ==
    {<<>>,
     <<[name |-> DEFAULT_WINDOWS_VOICE, id |-> <<"d">>],
       [name |-> DEFAULT_MAC_OS_VOICE, id |-> <<"s">>]>>,
     <<[name |-> <<"A", "l", "e", "x">>, id |-> <<"a">>],
       [name |-> DEFAULT_MAC_OS_VOICE, id |-> <<"s">>]>>}

SpeechConfigs ==
    { MkConfig([voice_name |-> a, speech_rate_wpm |-> b, use_mac_os_speech |-> c]) :
        a \in {Absent, None, JStr(<<"A", "l", "e", "x">>)},
        b \in {Absent, JInt(140)},
        c \in {Absent, JBool(TRUE), JBool(FALSE)} }

Utterances == {<<"h", "i">>, <<"o", "k">>}

InitSpeech ==
    /\ environ = NoEnv
    /\ fs = NoFiles
    /\ call = NoCall
    /\ stdout = <<>>
    /\ speech_engine = NoEngine
    /\ AppNotStarted

\* speech_config, speech_engine = initialize_text_to_speech(speech_config)
CallInitializeTextToSpeech ==
    /\ call = NoCall
    /\ \E speech_config \in SpeechConfigs, platform \in Platforms, voices \in VoiceLists :
         LET did == initialize_text_to_speech(speech_config, platform, voices)
         IN /\ call' = CalledOut("initialize_text_to_speech",
                                 <<speech_config, platform, voices>>, did)
            /\ speech_engine' = did.val.speech_engine
    /\ UNCHANGED <<environ, fs, stdout, app_vars>>

\* speak_message(message, speech_engine): one call after another on the engine
CallSpeakMessage ==
    /\ speech_engine # NoEngine
    /\ \E message \in Utterances, loop_left_open \in BOOLEAN :
         LET did == speak_message(message, speech_engine, loop_left_open)
         IN /\ call' = CalledOut("speak_message", <<message, speech_engine>>, did)
            /\ speech_engine' = did.speech_engine
    /\ UNCHANGED <<environ, fs, stdout, app_vars>>

NextSpeech ==
    \/ CallInitializeTextToSpeech
    \/ CallSpeakMessage

SpecSpeech == InitSpeech /\ [][NextSpeech]_vars

Initialized == call.op = "initialize_text_to_speech"

\* C15: on a host that is not macOS, initialize_text_to_speech called with a
\* config whose use_mac_os_speech is true returns a config whose
\* use_mac_os_speech is false.
C15_MacSpeechNormalizedOff ==
    (/\ Initialized
     /\ ~running_on_mac_os(call.args[2])
     /\ Get(call.args[1], "use_mac_os_speech", None) = JBool(TRUE))
    => /\ call.exc = "None"
       /\ Get(call.val.speech_config, "use_mac_os_speech", None) = JBool(FALSE)

\* the voice name the claim has the initialization choose
VoiceNameWanted(speech_config, platform) ==
    IF "voice_name" \in DOMAIN speech_config THEN speech_config["voice_name"]
    ELSE IF running_on_windows(platform) THEN JStr(DEFAULT_WINDOWS_VOICE)
    ELSE IF running_on_mac_os(platform) THEN JStr(DEFAULT_MAC_OS_VOICE)
    ELSE None

\* the engine's voice property holds the id of the first installed voice of
\* that name, or None when the host has no such voice
VoiceIs(engine, voices, voice_name) ==
    LET named == { i \in 1..Len(voices) : JStr(voices[i].name) = voice_name }
    IN IF named = {} THEN engine.voice = None
       ELSE \E i \in named : /\ \A j \in named : i <= j
                              /\ engine.voice = JStr(voices[i].id)

\* C19: an explicit voice_name wins on every platform; without one the voice
\* is the Windows default on Windows, 'Samantha' on macOS, and on any other
\* platform the engine's voice property is left unset; the rate is
\* speech_rate_wpm when given and 180 otherwise.
C19_VoiceAndRate ==
    Initialized =>
        LET speech_config == call.args[1]
            platform == call.args[2]
            voices == call.args[3]
            engine == call.val.speech_engine
            wanted == VoiceNameWanted(speech_config, platform)
            voice_set == { i \in StepsNamed("setProperty") : call.steps[i][2] = "voice" }
        IN /\ call.exc = "None"
           /\ wanted # None => VoiceIs(engine, voices, wanted) /\ voice_set # {}
           /\ wanted = None => engine.voice = Unset /\ voice_set = {}
           /\ ("voice_name" \notin DOMAIN speech_config
                   /\ ~running_on_windows(platform) /\ ~running_on_mac_os(platform))
                  => engine.voice = Unset
           /\ engine.rate = (IF "speech_rate_wpm" \in DOMAIN speech_config
                             THEN speech_config["speech_rate_wpm"] ELSE JInt(180))

\* on Windows, with the Windows default installed, the voice named in the
\* config is the one the engine gets, at the default rate
C19_Witness ==
    /\ Initialized
    /\ running_on_windows(call.args[2])
    /\ Get(call.args[1], "voice_name", None) = JStr(<<"A", "l", "e", "x">>)
    /\ "speech_rate_wpm" \notin DOMAIN call.args[1]
    /\ call.val.speech_engine.voice = JStr(<<"a">>)
    /\ call.val.speech_engine.rate = JInt(180)

Spoke == call.op = "speak_message"

\* C20: when the engine is in a loop at entry, endLoop comes before say; say
\* always comes before runAndWait; endLoop is not called on an engine that is
\* not in a loop; and over any sequence of calls on one engine no runAndWait
\* starts while a loop is marked active.
C20_ReentrancyGuard ==
    Spoke =>
        LET message == call.args[1]
            engine == call.args[2]
            ended == StepsNamed("endLoop")
            said == StepsNamed("say")
            run == StepsNamed("runAndWait")
        IN /\ engine.inLoop => ended # {} /\ \A i \in ended, j \in said : i < j
           /\ ~engine.inLoop => ended = {}
           /\ Cardinality(said) = 1 /\ \A i \in said : call.steps[i][2] = message
           /\ Cardinality(run) = 1 /\ \A i \in said, j \in run : i < j
           /\ \A j \in run : call.steps[j][2] = FALSE
           /\ call.exc = "None"

\* a call on an engine that the call before it left marked as in a loop
C20_Witness ==
    /\ Spoke
    /\ call.args[2].inLoop
    /\ StepsNamed("endLoop") = {1}
    /\ call.exc = "None"

(***************************************************************************)
(* Totality of the section validators.                                     *)
(***************************************************************************)
SectionValidators ==
    {"validate_model_config", "validate_prompt_config",
     "validate_response_config", "validate_theme_config"}

\* C28: on every mapping, whatever the types of its values, each of the four
\* section validators returns a pair (is_valid, errors) instead of raising,
\* and is_valid is true exactly when errors is empty.
C28_ValidatorsTotalOnMappings ==
    call.op \in SectionValidators =>
        /\ call.exc = "None"
        /\ call.val[1] <=> Len(call.val[2]) = 0

(***************************************************************************)
(* app.py.  The module-level code runs once, on one thread, when the       *)
(* process starts; after launch() Gradio calls get_response for each       *)
(* submission and iterates the generator it returns.  Each speech thread   *)
(* runs text_to_speech.speak_message on the one engine of the process.     *)
(***************************************************************************)
DEFAULT_RESPONSE_DELAY_TIME == 0

\* 0.1, in tenths
DEFAULT_RESPONSE_STREAM_LAG_TIME == JFloat(1)

\* PromptTemplate(**prompt_config)
load_prompt_from_config(prompt_config) ==
    [class |-> "PromptTemplate", template |-> prompt_config["template"][2],
     input_variables |-> prompt_config["input_variables"]]

\* mutant of speech_is_loaded: the engine is made only on request
speech_is_loaded_on_request(response_config) ==
    Truthy(Get(response_config, "speak_responses", JBool(FALSE)))

\* line 171
speech_is_loaded(response_config) ==
    Truthy(Get(response_config, "speak_responses", JBool(TRUE)))

\* how the module-level code ends, with the globals it has bound by then
Started(outcome, printed, steps, pc, config, client, template, engine) ==
    [exc |-> outcome.exc, val |-> outcome.val, out |-> printed, steps |-> steps,
     app_pc |-> pc, chat_app_config |-> config, llm |-> client,
     prompt_template |-> template, speech_engine |-> engine]

\* lines 157-193, on a host with this platform and these voices; the theme
\* section is one load_app_theme makes a theme of.  An exception or a
\* sys.exit ends the process before launch().
startup(files, env, exit_status, platform, voices) ==
    Bind(AppConfig_init(files, env, TRUE), LAMBDA constructed :
      IF constructed.exc # "None"
      THEN Started(constructed, constructed.out, constructed.steps, "ended",
                   NotLoaded, NotLoaded, NotLoaded, NoEngine)
      ELSE
      LET self == constructed.val
          loaded == load_model(self.model_config[2], exit_status)
          loading == constructed.steps \o <<<<"load_model">>>> \o loaded.steps
          template == load_prompt_from_config(self.prompt_config[2])
          speech == initialize_text_to_speech(self.response_config[2], platform, voices)
      IN IF loaded.exc # "None"
         THEN Started(loaded, <<>>, loading, "ended", self, NotLoaded, NotLoaded, NoEngine)
         ELSE IF speech_is_loaded(self.response_config[2])
         THEN Started(Return(None), <<>>,
                      loading \o <<<<"initialize_text_to_speech">>>> \o speech.steps
                          \o <<<<"launch">>>>,
                      "launched",
                      [self EXCEPT !.response_config = JDict(speech.val.speech_config)],
                      loaded.val, template, speech.val.speech_engine)
         ELSE Started(Return(None), <<>>, loading \o <<<<"launch">>>>, "launched",
                      self, loaded.val, template, NoEngine))

\* line 133
response_is_spoken(response_config) ==
    Truthy(Get(response_config, "speak_responses", JBool(TRUE)))

\* mutant of prefix: response[:i]
prefix_one_short(response, i) == SubSeq(response, 1, i)

\* line 148: response[: i + 1]
prefix(response, i) == SubSeq(response, 1, i + 1)

\* a get_response generator: where it stands, what it was called with, the
\* response it holds, the index of its loop, the values it has yielded, the
\* calls it has made, how it ended if it raised, and whether it started a
\* speech thread
Frame(pc, message, history, response, steps, outcome, spoke) ==
    [pc |-> pc, message |-> message, history |-> history, response |-> response,
     i |-> 0, yielded |-> <<>>, steps |-> steps, exc |-> outcome.exc,
     val |-> outcome.val, spoke |-> spoke]

\* mutant of get_response_called: the thread is started before the delay
get_response_called_speaking_first(message, history, config, client, template, engine, reply) ==
    LET did == get_llm_response(message, history, config.model_config[2], reply,
                                template.template)
        dispatched == <<<<"get_llm_response", message, history>>>> \o did.steps
        delay == Get(config.response_config[2], "response_delay_time",
                     JInt(DEFAULT_RESPONSE_DELAY_TIME))
        spoken == response_is_spoken(config.response_config[2])
    IN IF did.exc # "None"
       THEN Frame("raised", message, history, None, dispatched, did, FALSE)
       ELSE IF spoken /\ engine = NoEngine
       THEN Frame("raised", message, history, did.val, dispatched,
                  Raise("NameError", <<"speech_engine">>), FALSE)
       ELSE Frame("streaming", message, history, did.val,
                  dispatched
                      \o (IF spoken THEN <<<<"Thread.start", did.val>>>> ELSE <<>>)
                      \o <<<<"sleep", delay>>>>,
                  Return(None), spoken)

\* mutant of get_response_called: the thread is joined as soon as it is started
get_response_called_joining(message, history, config, client, template, engine, reply) ==
    LET did == get_llm_response(message, history, config.model_config[2], reply,
                                template.template)
        dispatched == <<<<"get_llm_response", message, history>>>> \o did.steps
        delay == Get(config.response_config[2], "response_delay_time",
                     JInt(DEFAULT_RESPONSE_DELAY_TIME))
        spoken == response_is_spoken(config.response_config[2])
    IN IF did.exc # "None"
       THEN Frame("raised", message, history, None, dispatched, did, FALSE)
       ELSE IF spoken /\ engine = NoEngine
       THEN Frame("raised", message, history, did.val,
                  dispatched \o <<<<"sleep", delay>>>>,
                  Raise("NameError", <<"speech_engine">>), FALSE)
       ELSE Frame("streaming", message, history, did.val,
                  dispatched \o <<<<"sleep", delay>>>>
                      \o (IF spoken
                          THEN <<<<"Thread.start", did.val>>, <<"Thread.join">>>>
                          ELSE <<>>),
                  Return(None), spoken)

\* lines 121-139: the call of the dispatcher, the delay and the start of the
\* speech thread.  The global speech_engine is read when the Thread is made:
\* NameError if no statement has bound it.
get_response_called(message, history, config, client, template, engine, reply) ==
    LET did == get_llm_response(message, history, config.model_config[2], reply,
                                template.template)
        dispatched == <<<<"get_llm_response", message, history>>>> \o did.steps
        delay == Get(config.response_config[2], "response_delay_time",
                     JInt(DEFAULT_RESPONSE_DELAY_TIME))
        spoken == response_is_spoken(config.response_config[2])
    IN IF did.exc # "None"
       THEN Frame("raised", message, history, None, dispatched, did, FALSE)
       ELSE IF spoken /\ engine = NoEngine
       THEN Frame("raised", message, history, did.val,
                  dispatched \o <<<<"sleep", delay>>>>,
                  Raise("NameError", <<"speech_engine">>), FALSE)
       ELSE Frame("streaming", message, history, did.val,
                  dispatched \o <<<<"sleep", delay>>>>
                      \o (IF spoken THEN <<<<"Thread.start", did.val>>>> ELSE <<>>),
                  Return(None), spoken)

\* lines 142-148, one pass of the loop: the lag, then the yield.  After the
\* last pass the generator returns.
get_response_resumed(frame, config) ==
    IF frame.i < Len(frame.response[2])
    THEN [frame EXCEPT
             !.steps = @ \o <<<<"sleep", Get(config.response_config[2],
                                            "response_stream_lag_time",
                                            DEFAULT_RESPONSE_STREAM_LAG_TIME)>>,
                              <<"yield", frame.i + 1>>>>,
             !.yielded = Append(@, JStr(prefix(frame.response[2], frame.i))),
             !.i = @ + 1]
    ELSE [frame EXCEPT !.pc = "returned"]

\* Thread(target=ts.speak_message, args=(response, speech_engine)).start():
\* a thread that has yet to enter speak_message
speech_thread(response) ==
    [pc |-> "started", message |-> response[2], found |-> "not looked",
     ended |-> {}]

\* mutant of speak_message_step: a lock around the engine, a thread enters
\* speak_message only when no runAndWait is under way
speak_message_step_locked(thread, engine, running, loop_left_open) ==
    CASE thread.pc = "started" /\ running # {} ->
            [thread |-> thread, engine |-> engine]
      [] thread.pc = "started" /\ running = {} ->
            [thread |-> [thread EXCEPT
                            !.pc = IF engine.inLoop THEN "ending" ELSE "checked",
                            !.found = IF engine.inLoop THEN "in loop" ELSE "idle"],
             engine |-> engine]
      [] thread.pc = "ending" ->
            [thread |-> [thread EXCEPT !.pc = "checked", !.ended = running],
             engine |-> [engine EXCEPT !.inLoop = FALSE]]
      [] thread.pc = "checked" ->
            [thread |-> [thread EXCEPT !.pc = "queued"],
             engine |-> [engine EXCEPT !.queue = Append(@, thread.message)]]
      [] thread.pc = "queued" ->
            IF engine.inLoop
            THEN [thread |-> [thread EXCEPT !.pc = "raised"], engine |-> engine]
            ELSE [thread |-> [thread EXCEPT !.pc = "running"],
                  engine |-> [engine EXCEPT !.inLoop = TRUE]]
      [] thread.pc = "running" ->
            [thread |-> [thread EXCEPT !.pc = "done"],
             engine |-> [engine EXCEPT !.inLoop = loop_left_open, !.queue = <<>>]]
      [] OTHER -> [thread |-> thread, engine |-> engine]

\* text_to_speech.py lines 176-180 as one thread runs them, a statement at a
\* time, on the engine all threads share.  running are the threads whose
\* runAndWait has not returned.  The loop ends by itself (loop_left_open: the
\* flag is left set) or because endLoop was called on the engine.
speak_message_step(thread, engine, running, loop_left_open) ==
    CASE thread.pc = "started" ->
            [thread |-> [thread EXCEPT
                            !.pc = IF engine.inLoop THEN "ending" ELSE "checked",
                            !.found = IF engine.inLoop THEN "in loop" ELSE "idle"],
             engine |-> engine]
      [] thread.pc = "ending" ->
            [thread |-> [thread EXCEPT !.pc = "checked", !.ended = running],
             engine |-> [engine EXCEPT !.inLoop = FALSE]]
      [] thread.pc = "checked" ->
            [thread |-> [thread EXCEPT !.pc = "queued"],
             engine |-> [engine EXCEPT !.queue = Append(@, thread.message)]]
      [] thread.pc = "queued" ->
            IF engine.inLoop
            THEN [thread |-> [thread EXCEPT !.pc = "raised"], engine |-> engine]
            ELSE [thread |-> [thread EXCEPT !.pc = "running"],
                  engine |-> [engine EXCEPT !.inLoop = TRUE]]
      [] thread.pc = "running" ->
            [thread |-> [thread EXCEPT !.pc = "done"],
             engine |-> [engine EXCEPT !.inLoop = loop_left_open, !.queue = <<>>]]
      [] OTHER -> [thread |-> thread, engine |-> engine]

\* the turns get_response is called for in one run of the process
MaxTurns == 2

\* a model section the validator accepts and load_model does not support
RemoteOllamaModel ==
    JDict([use_remote_model |-> JBool(TRUE), model_source |-> JStr(Ollama),
           model_name |-> JStr(SomeName), model_parameters |-> JDict(EmptyDict)])

QuestionPrompt ==
    JDict([input_variables |-> JList(<<JStr(<<"q", "u", "e", "s", "t", "i", "o", "n">>)>>),
           template |-> JStr(<<"{", "q", "u", "e", "s", "t", "i", "o", "n", "}">>)])

\* a prompt the validator accepts and format(question=...) cannot fill
OtherVariablePrompt ==
    JDict([input_variables |-> JList(<<JStr(<<"a">>)>>),
           template |-> JStr(<<"{", "a", "}">>)])

\* the unified config files the application is started on
AppFiles ==
    { JDict(MkConfig([model |-> c, prompt |-> d, response |-> e])) :
        c \in {ValidOpenAIModel, ValidOllamaModel, RemoteOllamaModel},
        d \in {QuestionPrompt, OtherVariablePrompt},
        e \in {Absent, JDict([speak_responses |-> JBool(FALSE)]),
               JDict([speak_responses |-> JBool(TRUE),
                      response_delay_time |-> JInt(3)])} }
    \cup {JDict([prompt |-> QuestionPrompt])}

AppMessages == {<<"?">>}

AppHistories == {JList(<<>>), JList(<<JDict([role |-> JStr(User), content |-> JStr(<<"h", "i">>)]), JDict([role |-> JStr(Assistant), content |-> JStr(<<"h", "e", "l", "l", "o">>)])>>)}

\* the client answers with no text or with a text, or it raises
AppReplies == {Return(<<>>), Return(<<"o", "k">>)} \cup BackendErrors

\* the host the application runs on
HostPlatform == <<"L", "i", "n", "u", "x", "-", "6", "-", "x", "8", "6", "_", "6", "4">>

HostVoices == <<[name |-> <<"A", "l", "e", "x">>, id |-> <<"a">>]>>

InitApp ==
    /\ environ \in {NoEnv, [OPENAI_API_KEY |-> <<"s", "k">>]}
    /\ fs \in { [p \in {DEFAULT_CONFIG_PATH} |-> RegularFile(json_dump(x))] : x \in AppFiles }
    /\ call = NoCall
    /\ stdout = <<>>
    /\ speech_engine = NoEngine
    /\ AppNotStarted

\* python app.py
Startup ==
    /\ app_pc = "not started"
    /\ \E exit_status \in ExitStatuses :
         LET started == startup(fs, environ, exit_status, HostPlatform, HostVoices)
         IN /\ call' = CalledOut("app.py", <<>>, started)
            /\ stdout' = stdout \o started.out
            /\ app_pc' = started.app_pc
            /\ chat_app_config' = started.chat_app_config
            /\ llm' = started.llm
            /\ prompt_template' = started.prompt_template
            /\ speech_engine' = started.speech_engine
    /\ UNCHANGED <<environ, fs, generator, speech_threads, session_state>>

TurnsTaken == IF generator.pc = "none" THEN 0 ELSE generator.turn

\* a submission: Gradio calls get_response and runs the generator up to the
\* statement before its loop
GetResponseCalled ==
    /\ app_pc = "launched"
    /\ generator.pc \in {"none", "returned", "raised"}
    /\ TurnsTaken < MaxTurns
    /\ \E message \in AppMessages, history \in AppHistories, reply \in AppReplies :
         LET frame == get_response_called(message, history, chat_app_config, llm,
                                          prompt_template, speech_engine, reply)
         IN /\ generator' = [k \in DOMAIN frame \cup {"turn"} |->
                                IF k = "turn" THEN TurnsTaken + 1 ELSE frame[k]]
            /\ speech_threads' = IF frame.spoke
                                 THEN Append(speech_threads, speech_thread(frame.response))
                                 ELSE speech_threads
    /\ UNCHANGED <<environ, fs, call, stdout, speech_engine, app_pc, chat_app_config, llm, prompt_template, session_state>>

\* Gradio takes the next value of the generator
GetResponseResumed ==
    /\ generator.pc = "streaming"
    /\ generator' = get_response_resumed(generator, chat_app_config)
    /\ UNCHANGED <<environ, fs, call, stdout, speech_engine, app_pc, chat_app_config, llm, prompt_template, speech_threads, session_state>>

Unfinished == { t \in 1..Len(speech_threads) : speech_threads[t].pc \notin {"done", "raised"} }

\* speech thread t runs its next statement of speak_message
SpeechThreadStep(t) ==
    /\ t \in Unfinished
    /\ \E loop_left_open \in BOOLEAN :
         LET running == { u \in 1..Len(speech_threads) : speech_threads[u].pc = "running" }
             stepped == speak_message_step(speech_threads[t], speech_engine,
                                           running \ {t}, loop_left_open)
         IN /\ speech_threads' = [speech_threads EXCEPT ![t] = stepped.thread]
            /\ speech_engine' = stepped.engine
    /\ UNCHANGED <<environ, fs, call, stdout, app_pc, chat_app_config, llm, prompt_template, generator, session_state>>

NextApp ==
    \/ Startup
    \/ GetResponseCalled
    \/ GetResponseResumed
    \/ \E t \in 1..Len(speech_threads) : SpeechThreadStep(t)

SpecApp == InitApp /\ [][NextApp]_vars

(***************************************************************************)
(* Properties of get_response.                                             *)
(***************************************************************************)
\* C21: for a response of length n the generator yields n values, the k-th
\* being the prefix of length k, so that the last one is the whole response;
\* for an empty response it yields nothing.
C21_YieldsGrowingPrefixes ==
    generator.pc \in {"streaming", "returned"} =>
        LET response == generator.response[2]
            yielded == generator.yielded
        IN /\ Len(yielded) <= Len(response)
           /\ \A k \in 1..Len(yielded) : yielded[k] = JStr([j \in 1..k |-> response[j]])
           /\ generator.pc = "returned" =>
                 /\ Len(yielded) = Len(response)
                 /\ Len(response) > 0 => yielded[Len(yielded)] = generator.response
                 /\ Len(response) = 0 => yielded = <<>>

\* the response 'ok' has been streamed: 'o', then 'ok'
C21_Witness ==
    /\ generator.pc = "returned"
    /\ generator.response = JStr(<<"o", "k">>)
    /\ generator.yielded = <<JStr(<<"o">>), JStr(<<"o", "k">>)>>

\* the steps of that name the generator has made
GeneratorSteps(name) ==
    IF generator.pc = "none" THEN {}
    ELSE { n \in 1..Len(generator.steps) : generator.steps[n][1] = name }

\* speak_responses as the validated response section has it: true, or absent
SpeechEnabled ==
    LET response_config == chat_app_config.response_config[2]
    IN "speak_responses" \in DOMAIN response_config
          => response_config["speak_responses"] = JBool(TRUE)

\* C22: with speech enabled the turn starts a thread for speak_message and
\* never joins it, and the generator can take its next step whatever the
\* thread is doing; with speak_responses false the turn starts no thread.
C22_SpeechDoesNotBlockStream ==
    /\ generator.pc \in {"streaming", "returned"} =>
          /\ SpeechEnabled => Cardinality(GeneratorSteps("Thread.start")) = 1
          /\ ~SpeechEnabled => GeneratorSteps("Thread.start") = {}
          /\ GeneratorSteps("Thread.join") = {}
    /\ generator.pc = "streaming" => ENABLED GetResponseResumed
    /\ (app_pc = "launched" /\ ~SpeechEnabled) => speech_threads = <<>>
    /\ (app_pc = "launched" /\ SpeechEnabled) => Len(speech_threads) <= TurnsTaken

\* the generator has yielded every prefix and returned, and the thread it
\* started is still inside runAndWait
C22_Witness ==
    /\ generator.pc = "returned"
    /\ generator.response = JStr(<<"o", "k">>)
    /\ Len(generator.yielded) = 2
    /\ GeneratorSteps("Thread.start") # {}
    /\ speech_threads[Len(speech_threads)].pc = "running"
    /\ speech_threads[Len(speech_threads)].message = <<"o", "k">>

\* the least element of a non-empty set of step indices
First(indices) == CHOOSE n \in indices : \A m \in indices : n <= m

\* C29: in a turn the response is obtained from the dispatcher first, then
\* the configured delay is waited, then the speech thread is started if
\* speech is enabled, and only then is a prefix yielded; the thread is
\* started at most once and with the complete response.
C29_OrderWithinTurn ==
    generator.pc \in {"streaming", "returned"} =>
        LET sleeps == GeneratorSteps("sleep")
            starts == GeneratorSteps("Thread.start")
            yields == GeneratorSteps("yield")
            invokes == GeneratorSteps("llm.invoke") \cup GeneratorSteps("chain.invoke")
        IN /\ GeneratorSteps("get_llm_response") = {1}
           /\ invokes # {}
           /\ sleeps # {}
           /\ generator.steps[First(sleeps)][2] =
                 Get(chat_app_config.response_config[2], "response_delay_time", JInt(0))
           /\ \A n \in invokes : n < First(sleeps)
           /\ \A s \in starts : /\ First(sleeps) < s
                                /\ generator.steps[s][2] = generator.response
                                /\ \A y \in yields : s < y
           /\ \A y \in yields : First(sleeps) < y
           /\ Cardinality(starts) <= 1
           /\ SpeechEnabled => starts # {}
           /\ Cardinality(yields) = Len(generator.yielded)

\* a turn with a delay of 3 seconds and speech: the first prefix of 'ok' has
\* been yielded, after the delay and the start of the thread
C29_Witness ==
    /\ generator.pc = "streaming"
    /\ Len(generator.yielded) = 1
    /\ generator.response = JStr(<<"o", "k">>)
    /\ GeneratorSteps("Thread.start") # {}
    /\ \E n \in GeneratorSteps("sleep") : generator.steps[n][2] = JInt(3)

\* the response section AppConfig held when the module-level code validated it
ResponseConfigAtStartup ==
    call.steps[First(StepsNamed("validate_all_configs"))][4]

\* C30: a speech thread is only started with an initialized engine: the
\* engine is initialized at startup exactly when speak_responses is true or
\* absent, the response config is the same in every turn as at startup, and
\* with speak_responses false the engine is never initialized nor used.
C30_ThreadHasEngine ==
    app_pc = "launched" =>
        /\ chat_app_config.response_config = ResponseConfigAtStartup
        /\ SpeechEnabled <=> speech_engine # NoEngine
        /\ GeneratorSteps("Thread.start") # {} => speech_engine # NoEngine
        /\ generator.pc = "raised" => generator.exc # "NameError"
        /\ ~SpeechEnabled =>
              /\ StepsNamed("initialize_text_to_speech") = {}
              /\ speech_threads = <<>>

\* speak_responses is absent: the engine was made at startup and the thread
\* of a turn has spoken on it
C30_Witness ==
    /\ app_pc = "launched"
    /\ "speak_responses" \notin DOMAIN chat_app_config.response_config[2]
    /\ StepsNamed("initialize_text_to_speech") # {}
    /\ GeneratorSteps("Thread.start") # {}
    /\ speech_threads[1].pc = "done"

\* the calls of a backend client the generator has made
ClientCalls == GeneratorSteps("llm.invoke") \cup GeneratorSteps("chain.invoke")

\* C26: a call of get_llm_response calls the backend client at most once;
\* what that call raises, or what formatting the template raises, comes out
\* of get_llm_response and of get_response as it was raised, and in that turn
\* no delay is taken, no speech thread is started and nothing is yielded.
C26_NoRetryNoRecovery ==
    generator.pc # "none" =>
        /\ Cardinality(ClientCalls) <= 1
        /\ \A n \in ClientCalls :
              generator.steps[n][3].exc # "None" =>
                  /\ generator.pc = "raised"
                  /\ generator.exc = generator.steps[n][3].exc
                  /\ generator.val = generator.steps[n][3].val
        /\ (prompt_template.template = <<"{", "a", "}">>
               /\ GeneratorSteps("_get_open_ai_response") # {})
              => /\ generator.pc = "raised"
                 /\ generator.exc = "KeyError"
                 /\ ClientCalls = {}
        /\ generator.pc = "raised" =>
              /\ GeneratorSteps("sleep") = {}
              /\ GeneratorSteps("Thread.start") = {}
              /\ GeneratorSteps("yield") = {}
              /\ generator.yielded = <<>>
              /\ ~generator.spoke

\* the client raised ConnectionError in a turn with speech enabled: the turn
\* ended with that exception after one call of the client
C26_Witness ==
    /\ generator.pc = "raised"
    /\ generator.exc = "ConnectionError"
    /\ Cardinality(ClientCalls) = 1
    /\ SpeechEnabled
    /\ generator.yielded = <<>>

(***************************************************************************)
(* Properties of the startup of app.py.                                    *)
(***************************************************************************)
\* C27: a model config that validate_model_config reports valid is a
\* supported combination: once AppConfig has validated the configuration,
\* load_model does not raise the unsupported-configuration error.
C27_ValidatedConfigLoads ==
    (/\ call.op = "app.py"
     /\ StepsNamed("validate_all_configs") # {}
     /\ chat_app_config # NotLoaded)
    => ~(call.exc = "ValueError" /\ call.val = Unsupported.val)

(***************************************************************************)
(* Properties of the speech threads.                                       *)
(***************************************************************************)
\* thread t runs a statement and is at another place after it
SpeechThreadAdvances(t) ==
    /\ SpeechThreadStep(t)
    /\ speech_threads'[t].pc # speech_threads[t].pc

Ran(outcome, printed, steps, state) ==
    [exc |-> outcome.exc, val |-> outcome.val, out |-> printed, steps |-> steps,
     session_state |-> state]

\* the session state with this key set to this value
Assigned(state, key, value) ==
    [k \in DOMAIN state \cup {key} |-> IF k = key THEN value ELSE state[k]]

\* lines 12-51.  Line 22 reads an attribute of the AppConfig object; an
\* object without it raises AttributeError.
setup_app(files, env, state) ==
    LET initialized == IF "messages" \notin DOMAIN state
                       THEN Assigned(state, "messages", JList(<<>>))
                       ELSE state
    IN IF {"model_config", "prompt_config", "install_models_config"} \subseteq DOMAIN state
       THEN Ran(Return(None), <<>>, <<>>, initialized)
       ELSE Bind(AppConfig_init(files, env, TRUE), LAMBDA constructed :
              IF constructed.exc # "None"
              THEN Ran(constructed, constructed.out, constructed.steps, state)
              ELSE IF "install_models_config" \notin DOMAIN constructed.val
              THEN Ran(Raise("AttributeError", <<"install_models_config">>), <<>>,
                       constructed.steps, state)
              ELSE Ran(Return(None), <<>>, constructed.steps, initialized))

\* line 55: f"RESPONSE: {query}"
generate_response(query) ==
    <<"R", "E", "S", "P", "O", "N", "S", "E", ":", " ">> \o query

\* lines 90-110, for a submitted prompt: st.write_stream returns when the
\* generator of stream_response is exhausted
chat_turn(state, prompt) ==
    LET response == generate_response(prompt)
        user == JDict([role |-> JStr(User), content |-> JStr(prompt)])
        assistant == JDict([role |-> JStr(Assistant), content |-> JStr(response)])
    IN Ran(Return(None), <<>>,
           <<<<"append", user>>, <<"generate_response", prompt>>,
             <<"st.write_stream", response>>, <<"speak_response", response>>,
             <<"append", assistant>>>>,
           Assigned(state, "messages",
                    JList(state["messages"][2] \o <<user, assistant>>)))

\* line 90: `if prompt := st.chat_input(...)`, None and '' are false
submitted(prompt) == prompt # None /\ Len(prompt) > 0

\* lines 79-110: one run of the script; prompt is what st.chat_input returns,
\* None when nothing was submitted
Main_script(files, env, state, prompt) ==
    Bind(setup_app(files, env, state), LAMBDA set_up :
      IF set_up.exc # "None" THEN set_up
      ELSE IF ~submitted(prompt)
      THEN Ran(Return(None), set_up.out, set_up.steps, set_up.session_state)
      ELSE LET turn == chat_turn(set_up.session_state, prompt)
           IN Ran(turn, set_up.out, set_up.steps \o turn.steps, turn.session_state))

\* what the user submits
Prompts == {<<"h", "i">>, <<"?">>, <<>>}

\* the script has run on that many interactions
MaxRuns == 2

InitMain ==
    /\ environ \in {NoEnv, [OPENAI_API_KEY |-> <<"s", "k">>]}
    /\ fs \in { [p \in {DEFAULT_CONFIG_PATH} |-> RegularFile(json_dump(x))] : x \in AppFiles }
                \cup {NoFiles}
    /\ call = NoCall
    /\ stdout = <<>>
    /\ speech_engine = NoEngine
    /\ AppNotStarted

RunsTaken == IF call.op = "none" THEN 0 ELSE call.run

\* the session is opened, or the user submits a prompt: Streamlit runs Main.py
RunMain ==
    /\ RunsTaken < MaxRuns
    /\ \E prompt \in {None} \cup Prompts :
         LET ran == Main_script(fs, environ, session_state, prompt)
         IN /\ call' = [op |-> "Main.py", args |-> <<prompt, session_state>>,
                        exc |-> ran.exc, val |-> ran.val, steps |-> ran.steps,
                        run |-> RunsTaken + 1]
            /\ stdout' = stdout \o ran.out
            /\ session_state' = ran.session_state
    /\ UNCHANGED <<environ, fs, speech_engine, app_pc, chat_app_config, llm, prompt_template, generator, speech_threads>>

NextMain == RunMain

SpecMain == InitMain /\ [][NextMain]_vars

(***************************************************************************)
(* Properties of the chat history of Main.py.                              *)
(***************************************************************************)
\* a run of the script on a configuration AppConfig loads and finds valid:
\* the process was not ended by sys.exit
ConfiguredRun == call.op = "Main.py" /\ call.exc # "SystemExit"

\* the steps of the run that append a record of that role to the history
Appends(role) ==
    { n \in StepsNamed("append") : call.steps[n][2][2]["role"] = JStr(role) }

\* C24: on each user submission the user turn is appended to the history
\* before the response is generated, and the assistant turn is appended once
\* the response has been obtained, before it has been streamed to the display.
C24_AssistantAppendedOnDispatch ==
    (ConfiguredRun /\ submitted(call.args[1])) =>
        /\ Appends(User) # {}
        /\ Appends(Assistant) # {}
        /\ StepsNamed("generate_response") # {}
        /\ \A u \in Appends(User), g \in StepsNamed("generate_response") : u < g
        /\ \A g \in StepsNamed("generate_response"), a \in Appends(Assistant) : g < a
        /\ \A a \in Appends(Assistant), d \in StepsNamed("st.write_stream") : a < d

\* the history a run found in the session: empty when the session had none
HistoryBefore ==
    IF "messages" \in DOMAIN call.args[2] THEN call.args[2]["messages"][2] ELSE <<>>

====
